---- MODULE Spec2Model ----
(***************************************************************************)
(* Two-phase line editor of src/text_editor/server.py: select, overwrite,  *)
(* confirm and cancel of TextEditorServer, the id of calculate_id and the  *)
(* diff of generate_diff_preview, over files shared with other writers.    *)
(*                                                                         *)
(* A text is a sequence of one-character strings.  A file holds its        *)
(* content as written, carriage returns included; a server reads it in     *)
(* text mode, which turns every line ending into a newline, and its lines  *)
(* are what readlines() returns, each line keeping its newline.  Python's  *)
(* None is the empty tuple and a present value v is the one-element tuple  *)
(* <<v>>.                                                                  *)
(***************************************************************************)
EXTENDS Integers, Sequences, FiniteSets, TLC

\* ------------------------------------------------------------------ bounds
\* Longest file, in characters, that a confirm may produce.
MaxFileLen == 5
\* Line numbers offered to select range over 0 .. MaxLineArg.
MaxLineArg == 3
\* Line numbers offered to select where two servers run: 1 .. MaxLineArgTwo.
MaxLineArgTwo == 2
\* How many changes one server commits.
MaxCommits == 1
\* How many times another writer rewrites a file.
MaxExternalWrites == 1
\* Most characters a failing write leaves in the file.
MaxPartialWrite == 1
\* How many confirms of one preview fail on an I/O error.
MaxWriteFailures == 1
\* Texts given to calculate_id and calculate_hash have at most MaxTextLen
\* characters.
MaxTextLen == 3
\* Python sources have at most MaxSourceLines lines, indented at most
\* MaxIndent levels.
MaxSourceLines == 4
\* and those without decorators and blocks at most MaxPlainLines.
MaxPlainLines == 5
\* JavaScript function bodies have at most MaxJsLen characters.
MaxJsLen == 5
MaxIndent == 2
\* new_file and delete_file calls that change the file system
MaxFileCalls == 1
\* and the caller of new_file selects lines up to MaxLineArgFiles
MaxLineArgFiles == 1
\* Bulk validation is given at most MaxRanges ranges, with line numbers and
\* file lengths in 0 .. MaxRangeLine.
MaxRanges == 2
MaxRangeLine == 2
\* edit_file is given at most MaxPatches patches, with line numbers in
\* 1 .. MaxPatchLine.
MaxPatches == 2
MaxPatchLine == 2
\* generate_diff_preview is given files of at most MaxDiffLines lines and
\* replacement blocks of at most MaxBlock lines.
MaxDiffLines == 5
MaxBlock == 2

\* ------------------------------------------------------------- Python values
None == << >>
Some(v) == << v >>
Get(o) == o[1]

NL == "\n"
CR == "\r"
\* The characters of a text that was read from a file.
Char == {"a", "b", NL}

Min(x, y) == IF x < y THEN x ELSE y
Max(x, y) == IF x > y THEN x ELSE y

\* seq[lo:hi] of Python for 0 <= lo: the elements lo+1 .. min(hi, len).
Slice(seq, lo, hi) == SubSeq(seq, lo + 1, Min(hi, Len(seq)))

\* "".join(lines)
RECURSIVE Join(_)
Join(lines) == IF lines = << >> THEN << >> ELSE Head(lines) \o Join(Tail(lines))

\* file.readlines(): the text cut after every newline; a last line without
\* newline is kept as it is, and an empty text has no line.
RECURSIVE SplitKeepEnds(_, _, _)
SplitKeepEnds(text, i, cur) ==
  IF i > Len(text)
  THEN IF cur = << >> THEN << >> ELSE << cur >>
  ELSE IF text[i] = NL
       THEN << Append(cur, NL) >> \o SplitKeepEnds(text, i + 1, << >>)
       ELSE SplitKeepEnds(text, i + 1, Append(cur, text[i]))

RECURSIVE UniversalNewlines(_)
\* open(path, "r") reads with newline=None: "\r\n" and "\r" arrive as "\n".
UniversalNewlines(content) ==
  IF content = << >> THEN << >>
  ELSE IF Head(content) = CR
  THEN IF Len(content) > 1 /\ content[2] = NL
       THEN << NL >> \o UniversalNewlines(Tail(Tail(content)))
       ELSE << NL >> \o UniversalNewlines(Tail(content))
  ELSE << Head(content) >> \o UniversalNewlines(Tail(content))

\* The lines a server reads from a file of the given content.
readlines(content) == SplitKeepEnds(UniversalNewlines(content), 1, << >>)

\* os.linesep of the host, a POSIX system.
linesep == << NL >>

RECURSIVE TranslateOnWrite(_)
\* open(path, "w") writes with newline=None: "\n" leaves as os.linesep.
TranslateOnWrite(text) ==
  IF text = << >> THEN << >>
  ELSE (IF Head(text) = NL THEN linesep ELSE << Head(text) >>)
         \o TranslateOnWrite(Tail(text))

\* The content file.writelines(lines) puts in a file opened for writing.
writelines(lines) == TranslateOnWrite(Join(lines))

\* line.endswith("\n")
EndsWithNL(line) == Len(line) > 0 /\ line[Len(line)] = NL

\* line.rstrip(): the only whitespace of Char is the newline.
RECURSIVE rstrip(_)
rstrip(line) ==
  IF EndsWithNL(line) THEN rstrip(SubSeq(line, 1, Len(line) - 1)) ELSE line

\* text.splitlines(): lines without their newline.
RECURSIVE SplitDropEnds(_, _, _)
SplitDropEnds(text, i, cur) ==
  IF i > Len(text)
  THEN IF cur = << >> THEN << >> ELSE << cur >>
  ELSE IF text[i] = NL
       THEN << cur >> \o SplitDropEnds(text, i + 1, << >>)
       ELSE SplitDropEnds(text, i + 1, Append(cur, text[i]))
splitlines(text) == SplitDropEnds(text, 1, << >>)

\* ------------------------------------------------------------ calculate_id
\* hashlib.sha256(text.encode()).hexdigest()[:2], as the number 0..255 the two
\* hex digits spell.  SHA-256 is tabulated: entry TextCode(t) + 1 of the table
\* is the value for the text t, every text over Char of at most 7 characters
\* in the order of TextCode (bijective base 3: "a" 1, "b" 2, newline 3).
CharIndex(c) == IF c = "a" THEN 1 ELSE IF c = "b" THEN 2 ELSE 3

RECURSIVE TextCode(_)
TextCode(text) ==
  IF text = << >> THEN 0
  ELSE TextCode(SubSeq(text, 1, Len(text) - 1)) * 3 + CharIndex(text[Len(text)])

Sha256Hex2Table ==
  << 227, 202, 62, 1, 150, 251, 135, 151, 59, 2, 115, 94, 117, 152, 56, 217, 225, 113, 166, 153, 126, 167, 102, 236,
     139, 50, 62, 168, 196, 109, 190, 188, 188, 109, 77, 204, 230, 52, 253, 106, 97, 133, 23, 105, 72, 114, 181, 190,
     81, 240, 166, 60, 226, 1, 63, 77, 222, 92, 170, 5, 125, 95, 174, 145, 251, 56, 202, 165, 84, 154, 231, 57,
     211, 85, 8, 245, 96, 43, 112, 146, 129, 60, 23, 92, 9, 141, 158, 174, 11, 126, 242, 116, 194, 214, 139, 58,
     145, 204, 152, 214, 85, 110, 207, 128, 212, 84, 74, 238, 196, 60, 146, 127, 155, 73, 44, 153, 242, 114, 227, 193,
     84, 237, 94, 17, 56, 243, 33, 81, 243, 173, 89, 29, 37, 95, 110, 31, 150, 171, 186, 91, 20, 142, 128, 128,
     113, 117, 108, 40, 178, 80, 222, 249, 136, 112, 74, 55, 221, 233, 132, 125, 73, 134, 225, 218, 20, 187, 95, 175,
     121, 155, 136, 26, 92, 49, 211, 251, 139, 248, 61, 115, 43, 103, 113, 185, 144, 48, 103, 224, 40, 105, 135, 142,
     221, 17, 178, 203, 240, 253, 119, 221, 34, 118, 219, 42, 201, 141, 83, 171, 17, 245, 80, 55, 46, 118, 243, 188,
     52, 175, 29, 191, 72, 121, 175, 24, 154, 167, 176, 252, 125, 242, 111, 127, 119, 188, 138, 114, 181, 34, 37, 140,
     230, 98, 94, 69, 112, 209, 244, 217, 150, 194, 239, 192, 169, 90, 133, 143, 197, 19, 56, 252, 63, 86, 100, 95,
     211, 177, 136, 26, 33, 27, 47, 9, 225, 156, 182, 68, 95, 9, 218, 160, 6, 35, 27, 189, 243, 118, 240, 47,
     185, 170, 213, 164, 209, 7, 73, 187, 86, 108, 8, 183, 90, 188, 117, 146, 78, 41, 84, 202, 74, 233, 246, 166,
     45, 16, 46, 69, 224, 242, 153, 110, 245, 145, 146, 165, 61, 112, 212, 65, 201, 210, 214, 218, 218, 213, 150, 168,
     32, 72, 248, 67, 201, 162, 213, 222, 114, 50, 164, 146, 151, 198, 45, 152, 82, 96, 75, 247, 146, 142, 115, 206,
     31, 41, 204, 124, 237, 187, 189, 137, 16, 45, 4, 163, 114, 240, 14, 224, 215, 44, 255, 42, 63, 9, 78, 60,
     136, 209, 166, 153, 50, 213, 43, 36, 43, 85, 76, 247, 140, 185, 71, 122, 88, 100, 126, 202, 252, 30, 28, 81,
     202, 71, 213, 34, 126, 63, 207, 19, 212, 210, 39, 152, 58, 39, 150, 147, 34, 23, 112, 233, 81, 105, 227, 140,
     50, 248, 28, 6, 190, 119, 150, 234, 109, 167, 175, 247, 187, 134, 230, 87, 215, 98, 184, 31, 217, 43, 5, 54,
     232, 133, 85, 146, 66, 252, 84, 83, 97, 32, 74, 48, 84, 10, 51, 114, 244, 234, 215, 218, 165, 247, 98, 63,
     194, 212, 48, 200, 115, 252, 55, 46, 51, 42, 145, 10, 31, 107, 134, 238, 239, 5, 143, 76, 18, 1, 100, 102,
     156, 196, 159, 229, 84, 19, 47, 196, 216, 145, 255, 5, 0, 112, 126, 230, 235, 219, 42, 121, 162, 91, 83, 57,
     47, 6, 53, 97, 157, 112, 11, 65, 35, 139, 27, 52, 140, 103, 18, 238, 68, 186, 111, 26, 164, 130, 41, 225,
     203, 123, 72, 25, 80, 247, 54, 13, 86, 244, 177, 40, 199, 246, 61, 96, 153, 101, 204, 214, 211, 201, 85, 253,
     199, 103, 98, 221, 30, 57, 18, 222, 63, 81, 27, 155, 100, 117, 204, 11, 245, 14, 3, 225, 185, 107, 107, 120,
     15, 239, 134, 235, 91, 200, 248, 190, 160, 214, 209, 1, 212, 53, 143, 254, 205, 84, 224, 198, 192, 245, 57, 121,
     216, 89, 34, 188, 64, 30, 156, 74, 128, 247, 57, 43, 168, 114, 81, 88, 99, 101, 121, 35, 24, 218, 114, 150,
     204, 166, 18, 231, 103, 101, 144, 253, 245, 65, 117, 115, 5, 36, 7, 155, 59, 176, 161, 54, 41, 56, 166, 207,
     175, 237, 214, 28, 115, 11, 210, 112, 123, 75, 82, 218, 97, 187, 81, 125, 225, 158, 192, 92, 77, 18, 99, 75,
     48, 254, 132, 58, 62, 33, 102, 34, 180, 80, 17, 194, 149, 176, 157, 39, 36, 114, 104, 199, 254, 43, 114, 162,
     154, 222, 134, 58, 183, 69, 233, 57, 70, 139, 164, 24, 55, 99, 197, 75, 141, 161, 92, 117, 164, 217, 230, 74,
     63, 143, 151, 104, 246, 204, 183, 109, 184, 201, 139, 69, 111, 97, 217, 79, 122, 76, 45, 70, 109, 71, 253, 25,
     86, 84, 245, 249, 209, 34, 2, 30, 127, 255, 191, 107, 100, 24, 11, 244, 188, 83, 85, 56, 223, 30, 212, 83,
     124, 182, 174, 89, 170, 251, 68, 105, 167, 147, 140, 140, 95, 68, 12, 30, 194, 66, 46, 104, 131, 96, 177, 58,
     57, 245, 83, 82, 198, 220, 114, 114, 110, 109, 13, 192, 24, 109, 156, 100, 203, 173, 81, 199, 133, 15, 215, 2,
     77, 239, 88, 243, 189, 152, 196, 43, 7, 47, 123, 141, 51, 47, 82, 38, 63, 168, 235, 121, 21, 130, 132, 226,
     129, 23, 212, 247, 240, 14, 48, 15, 136, 37, 54, 140, 201, 55, 23, 150, 82, 230, 254, 159, 203, 137, 244, 237,
     99, 13, 190, 186, 217, 49, 95, 15, 159, 187, 39, 160, 248, 96, 15, 78, 39, 59, 70, 35, 98, 51, 239, 250,
     185, 200, 161, 104, 4, 205, 32, 204, 123, 228, 228, 253, 9, 198, 175, 144, 47, 8, 187, 253, 99, 31, 215, 152,
     150, 115, 3, 198, 144, 244, 102, 123, 205, 49, 242, 231, 6, 160, 50, 48, 33, 74, 158, 154, 192, 47, 159, 90,
     163, 143, 67, 183, 133, 55, 96, 134, 245, 23, 102, 248, 206, 29, 194, 25, 152, 71, 182, 65, 42, 117, 177, 212,
     217, 2, 144, 225, 27, 156, 238, 206, 174, 131, 249, 154, 217, 37, 73, 27, 222, 146, 43, 41, 201, 97, 154, 214,
     64, 39, 95, 248, 92, 175, 145, 97, 130, 176, 95, 172, 82, 97, 178, 8, 175, 248, 197, 196, 145, 79, 142, 155,
     6, 216, 176, 71, 201, 90, 56, 30, 25, 222, 98, 90, 231, 232, 153, 10, 124, 111, 137, 169, 23, 62, 205, 86,
     87, 179, 206, 96, 210, 200, 109, 97, 36, 167, 66, 59, 117, 218, 184, 3, 84, 254, 31, 244, 33, 44, 61, 235,
     156, 151, 108, 136, 35, 237, 82, 124, 84, 144, 62, 171, 208, 228, 202, 244, 39, 100, 48, 250, 247, 248, 225, 137,
     53, 21, 193, 54, 61, 38, 2, 95, 108, 238, 99, 64, 14, 37, 126, 138, 157, 3, 154, 20, 53, 93, 121, 74,
     213, 68, 152, 19, 188, 156, 58, 109, 23, 88, 252, 226, 252, 193, 254, 82, 48, 167, 147, 93, 189, 0, 38, 94,
     126, 241, 54, 208, 153, 212, 242, 90, 246, 202, 64, 163, 185, 109, 76, 236, 133, 202, 57, 97, 237, 204, 2, 227,
     32, 39, 32, 151, 27, 67, 159, 157, 216, 46, 122, 169, 96, 189, 250, 72, 111, 31, 221, 181, 238, 80, 250, 248,
     58, 39, 115, 33, 106, 195, 202, 175, 205, 49, 234, 213, 230, 65, 92, 190, 11, 88, 163, 60, 154, 175, 136, 80,
     2, 66, 192, 210, 89, 187, 64, 231, 161, 232, 223, 59, 237, 178, 176, 74, 176, 68, 19, 203, 136, 156, 104, 179,
     23, 81, 210, 38, 180, 11, 16, 169, 199, 37, 170, 97, 133, 196, 119, 120, 46, 78, 251, 250, 111, 211, 75, 15,
     100, 208, 182, 87, 109, 120, 160, 182, 147, 50, 144, 66, 5, 200, 183, 190, 119, 133, 212, 244, 203, 27, 26, 49,
     238, 120, 237, 229, 69, 154, 21, 182, 144, 154, 253, 51, 173, 139, 46, 125, 132, 171, 38, 235, 68, 31, 64, 239,
     218, 82, 179, 1, 25, 236, 79, 10, 71, 113, 119, 213, 20, 175, 246, 53, 27, 106, 3, 146, 249, 245, 211, 217,
     103, 46, 12, 95, 110, 89, 150, 122, 218, 146, 21, 239, 87, 199, 45, 120, 110, 32, 93, 5, 150, 62, 164, 160,
     96, 251, 81, 73, 28, 246, 165, 110, 153, 29, 32, 61, 138, 233, 2, 219, 35, 194, 127, 222, 111, 35, 244, 124,
     123, 11, 137, 145, 156, 39, 179, 47, 44, 1, 41, 117, 45, 252, 53, 248, 180, 131, 140, 31, 160, 22, 61, 72,
     179, 112, 175, 125, 68, 60, 63, 200, 149, 132, 151, 196, 196, 210, 167, 147, 50, 64, 219, 17, 160, 222, 198, 26,
     117, 247, 202, 57, 237, 2, 9, 244, 140, 168, 123, 13, 103, 192, 132, 250, 195, 174, 235, 144, 60, 157, 100, 41,
     167, 230, 79, 146, 215, 20, 28, 198, 74, 87, 35, 210, 194, 27, 43, 230, 141, 120, 142, 34, 52, 177, 214, 245,
     140, 229, 223, 161, 1, 56, 96, 157, 212, 21, 75, 103, 121, 37, 4, 1, 114, 227, 72, 83, 18, 209, 0, 212,
     41, 105, 21, 216, 168, 174, 240, 5, 24, 123, 33, 122, 110, 118, 234, 235, 224, 43, 174, 48, 19, 9, 71, 30,
     171, 89, 110, 0, 99, 63, 69, 219, 37, 165, 116, 164, 138, 52, 117, 38, 64, 245, 251, 64, 53, 32, 96, 86,
     19, 125, 41, 55, 111, 127, 209, 99, 35, 109, 233, 67, 231, 207, 143, 237, 51, 204, 151, 238, 50, 226, 140, 49,
     9, 205, 138, 120, 26, 196, 249, 192, 175, 32, 13, 141, 168, 6, 79, 161, 138, 224, 231, 45, 52, 124, 14, 211,
     82, 143, 61, 95, 253, 144, 108, 114, 183, 240, 7, 232, 23, 59, 105, 21, 89, 90, 24, 62, 45, 46, 17, 148,
     87, 222, 65, 194, 45, 35, 193, 83, 162, 218, 141, 79, 206, 36, 91, 37, 162, 41, 72, 215, 250, 156, 179, 124,
     111, 83, 14, 118, 225, 186, 21, 208, 245, 76, 32, 121, 183, 12, 249, 23, 243, 90, 14, 149, 224, 7, 69, 125,
     79, 115, 70, 7, 18, 134, 213, 30, 4, 164, 24, 149, 125, 67, 28, 0, 99, 30, 113, 192, 235, 1, 100, 28,
     251, 13, 6, 122, 34, 14, 251, 58, 191, 164, 25, 21, 154, 69, 220, 77, 231, 227, 251, 121, 74, 40, 77, 54,
     144, 81, 246, 238, 87, 47, 39, 35, 92, 141, 221, 211, 178, 147, 31, 218, 56, 70, 126, 184, 15, 163, 242, 213,
     8, 159, 2, 166, 77, 16, 104, 113, 165, 186, 96, 112, 2, 39, 87, 141, 185, 75, 126, 171, 31, 229, 238, 157,
     194, 174, 125, 105, 107, 226, 45, 93, 9, 15, 62, 108, 249, 232, 198, 63, 156, 132, 131, 93, 16, 78, 28, 166,
     10, 88, 71, 52, 89, 203, 170, 43, 88, 111, 36, 50, 184, 203, 19, 207, 21, 187, 172, 119, 241, 172, 20, 26,
     51, 185, 68, 93, 81, 121, 40, 184, 112, 200, 197, 249, 15, 138, 63, 101, 129, 58, 238, 175, 125, 238, 110, 0,
     102, 212, 8, 65, 22, 140, 170, 56, 48, 33, 114, 30, 245, 228, 114, 49, 40, 94, 74, 101, 205, 57, 125, 217,
     154, 9, 155, 205, 219, 147, 187, 19, 4, 233, 79, 138, 233, 180, 102, 71, 60, 100, 103, 211, 211, 253, 23, 80,
     115, 181, 253, 144, 217, 68, 190, 164, 121, 23, 29, 184, 36, 210, 180, 209, 38, 10, 153, 238, 60, 149, 3, 10,
     76, 172, 20, 19, 246, 121, 74, 202, 27, 75, 69, 137, 98, 57, 179, 235, 176, 177, 111, 140, 49, 248, 121, 156,
     150, 179, 168, 215, 10, 157, 2, 111, 242, 9, 97, 7, 209, 41, 234, 48, 253, 99, 56, 55, 49, 117, 167, 132,
     198, 234, 214, 3, 106, 171, 18, 85, 186, 221, 176, 38, 154, 80, 30, 224, 96, 39, 193, 94, 95, 8, 78, 228,
     205, 85, 201, 42, 84, 103, 230, 47, 47, 95, 65, 131, 102, 79, 65, 56, 147, 23, 245, 69, 51, 44, 244, 188,
     254, 234, 7, 58, 176, 117, 39, 121, 58, 78, 198, 158, 99, 137, 103, 98, 54, 89, 208, 157, 177, 219, 198, 214,
     128, 27, 193, 197, 223, 234, 82, 181, 226, 219, 229, 154, 253, 173, 56, 254, 97, 101, 103, 38, 121, 231, 115, 177,
     180, 157, 197, 99, 74, 98, 149, 254, 18, 149, 214, 209, 127, 20, 62, 201, 27, 224, 211, 243, 39, 152, 210, 189,
     38, 108, 73, 66, 158, 177, 105, 102, 249, 220, 55, 133, 40, 238, 240, 84, 90, 53, 40, 144, 60, 198, 179, 213,
     53, 225, 73, 159, 71, 233, 208, 66, 189, 25, 149, 228, 79, 74, 209, 138, 232, 137, 161, 216, 200, 218, 121, 8,
     170, 39, 167, 7, 111, 54, 11, 120, 169, 80, 247, 52, 198, 245, 182, 202, 247, 194, 86, 117, 84, 75, 128, 129,
     156, 226, 158, 90, 105, 222, 34, 103, 128, 197, 189, 244, 14, 151, 11, 197, 172, 35, 111, 236, 50, 221, 155, 11,
     59, 55, 234, 31, 119, 98, 109, 115, 67, 246, 191, 249, 220, 137, 166, 108, 117, 155, 7, 64, 54, 95, 173, 199,
     128, 32, 1, 111, 171, 24, 171, 135, 211, 7, 9, 157, 73, 237, 65, 48, 2, 81, 72, 173, 71, 210, 170, 51,
     9, 16, 214, 40, 186, 10, 31, 230, 7, 128, 145, 211, 133, 114, 91, 188, 202, 225, 2, 6, 106, 122, 121, 130,
     246, 230, 111, 213, 89, 255, 12, 28, 235, 120, 22, 121, 100, 177, 34, 229, 129, 130, 254, 143, 32, 67, 118, 137,
     18, 141, 161, 189, 144, 119, 85, 80, 104, 198, 168, 172, 59, 192, 61, 68, 167, 192, 136, 79, 143, 254, 87, 95,
     178, 129, 155, 52, 66, 95, 225, 150, 0, 126, 34, 213, 103, 245, 150, 181, 0, 127, 182, 79, 154, 228, 169, 64,
     40, 132, 126, 86, 192, 29, 248, 84, 34, 110, 194, 92, 98, 102, 35, 5, 82, 166, 38, 140, 170, 184, 99, 161,
     150, 69, 79, 48, 159, 56, 34, 126, 34, 86, 17, 63, 219, 192, 78, 102, 113, 55, 7, 218, 54, 244, 177, 41,
     33, 143, 110, 143, 10, 158, 231, 69, 169, 25, 169, 184, 23, 164, 237, 189, 33, 47, 246, 127, 39, 23, 131, 183,
     240, 136, 128, 151, 13, 99, 160, 225, 108, 250, 96, 231, 52, 45, 157, 205, 0, 113, 177, 180, 95, 125, 145, 54,
     99, 163, 137, 158, 128, 232, 73, 104, 109, 102, 121, 114, 237, 3, 239, 110, 188, 185, 184, 52, 111, 3, 13, 166,
     188, 85, 212, 98, 87, 202, 112, 40, 146, 67, 129, 157, 235, 196, 218, 239, 3, 5, 237, 19, 187, 17, 217, 131,
     55, 19, 89, 21, 224, 59, 136, 108, 165, 128, 51, 170, 213, 240, 163, 80, 198, 163, 4, 36, 151, 203, 100, 217,
     151, 150, 241, 42, 31, 240, 3, 77, 101, 233, 7, 212, 6, 189, 44, 22, 170, 16, 119, 116, 200, 84, 226, 85,
     5, 209, 120, 142, 19, 193, 98, 127, 169, 135, 228, 47, 177, 96, 1, 121, 48, 215, 38, 54, 213, 113, 44, 134,
     165, 31, 166, 227, 174, 176, 194, 56, 220, 185, 64, 225, 57, 255, 217, 221, 10, 175, 116, 111, 64, 219, 145, 177,
     150, 46, 14, 183, 205, 122, 226, 20, 154, 145, 246, 41, 34, 174, 153, 146, 160, 148, 29, 55, 67, 5, 100, 184,
     89, 183, 49, 97, 48, 20, 98, 65, 187, 201, 37, 232, 186, 34, 160, 64, 156, 52, 182, 174, 137, 86, 250, 99,
     224, 241, 188, 184, 67, 92, 239, 61, 154, 142, 30, 237, 155, 70, 140, 117, 191, 234, 111, 163, 144, 107, 23, 254,
     41, 121, 215, 78, 65, 98, 75, 151, 180, 72, 229, 177, 152, 37, 138, 190, 15, 47, 195, 28, 142, 1, 143, 252,
     127, 188, 179, 224, 61, 166, 250, 183, 91, 119, 147, 195, 24, 193, 251, 162, 46, 146, 172, 199, 19, 199, 246, 19,
     118, 22, 105, 89, 130, 16, 15, 191, 52, 4, 148, 63, 31, 225, 139, 27, 71, 254, 197, 4, 119, 11, 119, 2,
     255, 120, 236, 58, 89, 187, 186, 175, 157, 106, 75, 84, 42, 245, 39, 136, 119, 201, 254, 198, 73, 33, 201, 86,
     129, 13, 250, 124, 80, 102, 125, 215, 32, 218, 105, 242, 130, 193, 229, 73, 242, 199, 143, 49, 181, 94, 236, 197,
     234, 86, 238, 31, 26, 176, 16, 112, 127, 165, 76, 44, 237, 98, 19, 42, 218, 226, 157, 81, 211, 3, 11, 23,
     160, 126, 202, 145, 247, 93, 29, 236, 58, 169, 253, 62, 18, 136, 221, 40, 35, 38, 193, 250, 215, 196, 219, 181,
     132, 230, 57, 71, 251, 207, 185, 44, 86, 92, 122, 54, 60, 124, 72, 19, 247, 125, 213, 235, 59, 89, 216, 126,
     242, 222, 56, 91, 246, 40, 118, 18, 91, 142, 238, 241, 249, 201, 202, 221, 169, 151, 244, 41, 167, 185, 10, 48,
     86, 27, 101, 178, 150, 251, 61, 45, 144, 99, 32, 253, 120, 175, 104, 194, 221, 19, 49, 209, 224, 201, 54, 255,
     48, 191, 255, 81, 241, 170, 123, 228, 2, 193, 37, 177, 185, 38, 129, 144, 37, 121, 198, 19, 200, 237, 7, 2,
     157, 128, 71, 141, 199, 250, 141, 222, 47, 216, 182, 239, 15, 56, 64, 96, 227, 151, 105, 200, 183, 238, 192, 122,
     14, 30, 248, 24, 240, 248, 71, 26, 39, 180, 164, 150, 242, 193, 31, 51, 90, 202, 207, 25, 254, 74, 63, 20,
     142, 238, 203, 84, 249, 22, 156, 68, 232, 6, 134, 220, 142, 239, 117, 223, 179, 157, 205, 67, 53, 95, 114, 61,
     151, 132, 244, 142, 104, 50, 93, 111, 101, 1, 177, 176, 65, 139, 90, 212, 120, 254, 139, 57, 225, 159, 71, 92,
     127, 227, 127, 229, 200, 171, 1, 138, 37, 135, 113, 21, 174, 153, 55, 191, 185, 182, 57, 24, 218, 79, 54, 199,
     142, 24, 84, 143, 166, 205, 97, 160, 199, 235, 243, 54, 117, 244, 243, 41, 160, 15, 103, 17, 87, 130, 80, 240,
     222, 18, 24, 49, 165, 52, 142, 134, 103, 208, 46, 55, 239, 115, 213, 157, 102, 214, 90, 154, 131, 140, 180, 68,
     13, 166, 218, 160, 30, 150, 224, 173, 153, 52, 242, 74, 224, 206, 27, 197, 27, 147, 197, 213, 101, 189, 189, 71,
     64, 124, 128, 127, 84, 143, 217, 119, 86, 6, 123, 176, 82, 100, 91, 242, 242, 231, 69, 185, 172, 13, 171, 39,
     200, 208, 176, 52, 235, 138, 42, 95, 83, 150, 6, 175, 180, 179, 49, 191, 37, 221, 141, 177, 5, 67, 133, 228,
     70, 103, 70, 250, 171, 166, 115, 79, 133, 182, 249, 167, 72, 72, 119, 87, 44, 45, 158, 135, 117, 203, 174, 36,
     41, 92, 213, 240, 166, 58, 166, 138, 100, 248, 114, 175, 204, 157, 190, 18, 21, 199, 140, 254, 16, 64, 113, 61,
     72, 194, 230, 199, 239, 31, 94, 209, 121, 52, 55, 159, 123, 204, 23, 141, 252, 97, 202, 150, 33, 192, 98, 245,
     67, 75, 132, 91, 252, 230, 101, 109, 211, 244, 138, 169, 65, 131, 201, 27, 253, 187, 37, 231, 163, 177, 105, 245,
     119, 101, 98, 35, 36, 6, 9, 238, 195, 90, 100, 114, 235, 249, 116, 54, 64, 246, 11, 197, 9, 25, 35, 61,
     202, 140, 225, 64, 67, 203, 71, 57, 47, 61, 211, 67, 110, 200, 109, 83 >>

Sha256Hex2(text) == Sha256Hex2Table[TextCode(text) + 1]

\* A mutant of calculate_id: a range of one line is written with both bounds.
calculate_id_BothBounds(text, start, end) ==
  IF start # 0 /\ end # 0
  THEN << "L", start, "-", end, "-", Sha256Hex2(text) >>
  ELSE << Sha256Hex2(text) >>

\* calculate_id(text, start, end): the id string, as the tuple of its parts.
\* A bound that is None or 0 is falsy, and then there is no prefix.
calculate_id(text, start, end) ==
  IF start # 0 /\ end # 0
  THEN IF start = end
       THEN << "L", start, "-", Sha256Hex2(text) >>
       ELSE << "L", start, "-", end, "-", Sha256Hex2(text) >>
  ELSE << Sha256Hex2(text) >>

\* utils.calculate_hash(content, line_start, line_end): the same two hex
\* digits, after "L{line_start}-{line_end}-" when both bounds are truthy.
calculate_hash(content, line_start, line_end) ==
  IF line_start # 0 /\ line_end # 0
  THEN << "L", line_start, "-", line_end, "-", Sha256Hex2(content) >>
  ELSE << Sha256Hex2(content) >>

\* ---------------------------------------------------- generate_diff_preview
\* A diff entry is <<kind, line number, text>>: kind "ctx" for a context line
\* (labelled by the plain number), "-" for a removed and "+" for an added one.
DiffCtx(original_lines, lo, hi) ==
  [k \in 1..Max(0, hi - lo) |-> << "ctx", lo + k, rstrip(original_lines[lo + k]) >>]

DiffRemoved(original_lines, start, end) ==
  [k \in 1..Max(0, end - (start - 1)) |->
     << "-", start - 1 + k, rstrip(original_lines[start - 1 + k]) >>]

DiffAdded(original_lines, modified_lines, start, end) ==
  LET new_content ==
        Join(Slice(modified_lines, start - 1,
                   start - 1 + Len(modified_lines) - Len(original_lines)
                     + (end - (start - 1))))
      new_lines == splitlines(new_content)
  IN [k \in 1..Len(new_lines) |-> << "+", start + k - 1, new_lines[k] >>]

\* The call raises IndexError when a removed line is past the end of the file.
generate_diff_preview_raises(original_lines, start, end) ==
  end > Len(original_lines)

generate_diff_preview(original_lines, modified_lines, start, end) ==
  LET context_start == Max(0, start - 1 - 3)
      context_end == Min(Len(original_lines), end + 3)
  IN DiffCtx(original_lines, context_start, start - 1)
       \o DiffRemoved(original_lines, start, end)
       \o DiffAdded(original_lines, modified_lines, start, end)
       \o DiffCtx(original_lines, end, context_end)

\* ------------------------------------------------------------- configuration
\* A path is <<stem, extension>>; path.endswith(ext) reads the extension.
Paths ==
  { << "notes", ".txt" >>, << "mod", ".py" >>, << "app", ".js" >>,
    << "prod", ".env" >> }
endswith(path, ext) == path[2] = ext

\* Two server processes, each with its own TextEditorServer, on one disk.
Servers == { "s1", "s2" }

\* The defaults of TextEditorServer.__init__, but for MAX_SELECT_LINES, which
\* is configured small so that a file can exceed it.
max_select_lines == 2
enable_js_syntax_check == TRUE
fail_on_python_syntax_error == TRUE
fail_on_js_syntax_error == FALSE
\* PROTECTED_PATHS as the tests configure it: the glob "*.env".
protected_paths == { << "*", ".env" >> }

\* Files present at start or written by another writer, and the "lines"
\* arguments offered to overwrite (None: the argument has no "lines" entry).
InitDisks ==
  { << << "notes", ".txt" >>, << "b" >> >>,
    << << "notes", ".txt" >>, << "a", NL, "b", NL, "a" >> >>,
    << << "notes", ".txt" >>, << "a", CR, NL, "b", NL >> >>,
    << << "mod", ".py" >>, << "a", NL, "b", NL >> >>,
    << << "app", ".js" >>, << "b", NL >> >> }
ExternalTexts == { << "b", "b", "b" >>, << NL, "a", "a", NL >> }
NewLinesArgs ==
  { None, Some(<< >>), Some(<< <<"a">> >>), Some(<< <<"b", NL>>, <<"a">> >>) }

\* ---------------------------------------------------------------------- state
VARIABLES
  disk,                    \* path -> None (no such file) or Some(text)
  current_file_path,       \* server -> None or Some(path)
  selected_start,          \* server -> None or Some(line number)
  selected_end,            \* server -> None or Some(line number)
  selected_id,             \* server -> None or Some(id)
  pending_modified_lines,  \* server -> None or Some(list of lines)
  pending_diff,            \* server -> None or Some(diff)
  pc,                      \* server -> "idle", or "writing" inside confirm's write
  result,                  \* the reply of the last call, until the caller takes it
  observed,                \* server -> what the last select read: the file,
                           \* the selected text, whether end was clamped;
                           \* or what new_file wrote and selected
  staged,                  \* server -> what the last preview was computed from
  writes,                  \* counts: commits by server, of these the ones that
                           \* followed a failed confirm, writes by "other",
                           \* files created, emptied or deleted
  committed                \* server -> the change of its last commit, while
                           \* the file is as that commit left it

session == << current_file_path, selected_start, selected_end, selected_id,
              pending_modified_lines, pending_diff >>
history == << observed, staged, writes, committed >>
vars == << disk, session, pc, result, history >>

\* The session of one server, as the tuple of its six attributes.
SessionOf(s) ==
  << current_file_path[s], selected_start[s], selected_end[s], selected_id[s],
     pending_modified_lines[s], pending_diff[s] >>

\* What a call returns: its status or error, and for select the values of
\* the dictionary it returns, with the arguments that were asked for.
Reply(op, s, status, error) ==
  [op |-> op, srv |-> s, status |-> status, error |-> error, value |-> None]

\* No call has returned since the caller took the last reply.
NoReply == Reply("none", "none", "none", "none")

\* TextEditorServer.__init__: nothing set, nothing selected, nothing pending.
InitSession ==
  /\ current_file_path = [s \in Servers |-> None]
  /\ selected_start = [s \in Servers |-> None]
  /\ selected_end = [s \in Servers |-> None]
  /\ selected_id = [s \in Servers |-> None]
  /\ pending_modified_lines = [s \in Servers |-> None]
  /\ pending_diff = [s \in Servers |-> None]
  /\ pc = [s \in Servers |-> "idle"]
  /\ observed = [s \in Servers |-> None]
  /\ staged = [s \in Servers |-> None]
  /\ writes = [w \in Servers \cup {"other", "retried", "files"} |-> 0]
  /\ committed = [s \in Servers |-> None]
  /\ result = NoReply

\* One file exists, of some type and some content.
Init ==
  /\ InitSession
  /\ \E d \in InitDisks :
       disk = [q \in Paths |-> IF q = d[1] THEN Some(d[2]) ELSE None]

\* A mutant of ErrorReturn: the error path also drops the selection.
ErrorReturn_DropsSelection(op, s, error) ==
  /\ result' = Reply(op, s, "none", error)
  /\ selected_start' = [selected_start EXCEPT ![s] = None]
  /\ selected_end' = [selected_end EXCEPT ![s] = None]
  /\ selected_id' = [selected_id EXCEPT ![s] = None]
  /\ UNCHANGED << disk, current_file_path, pending_modified_lines, pending_diff,
                  pc, history >>

\* A call that returns {"error": ...} before it has assigned anything.
ErrorReturn(op, s, error) ==
  /\ result' = Reply(op, s, "none", error)
  /\ UNCHANGED << disk, session, pc, history >>

\* An exception that leaves the handler, raised before any assignment.
Raise(op, s, error) ==
  /\ result' = Reply(op, s, "raised", error)
  /\ UNCHANGED << disk, session, pc, history >>

\* The caller takes the reply; it makes its next call after that.
TakeReply ==
  /\ result # NoReply
  /\ result' = NoReply
  /\ UNCHANGED << disk, session, pc, history >>

\* ------------------------------------------------------------------- set_file
\* Lines 397-414: the path equals a pattern, or a pattern with "*" matches
\* the path or its basename.
IsProtected(filepath) ==
  \E pattern \in protected_paths :
    \/ filepath = pattern
    \/ pattern[1] = "*" /\ endswith(filepath, pattern[2])

SetFile(s, filepath) ==
  /\ pc[s] = "idle" /\ result = NoReply
  /\ IF disk[filepath] = None
     THEN ErrorReturn("set_file", s, "not_found")
     ELSE IF IsProtected(filepath)
     THEN ErrorReturn("set_file", s, "protected")
     ELSE /\ current_file_path' = [current_file_path EXCEPT ![s] = Some(filepath)]
          /\ result' = Reply("set_file", s, "success", "none")
          /\ UNCHANGED << disk, selected_start, selected_end, selected_id,
                          pending_modified_lines, pending_diff, pc, history >>

\* --------------------------------------------------------------------- select
\* open(path, "r") and readlines(): fails when the file is gone or on an I/O
\* error (rd = "fail"), else gives the lines.
ReadFails(path, rd) == rd = "fail" \/ disk[path] = None

\* "".join(lines[start - 1 : end]) of select
SelectedText(lines, start, end) == Join(Slice(lines, start - 1, end))

\* Lines 539-543; end is the clamped end, end_arg the end the caller gave.
SelectStore(s, start, end, end_arg, lines) ==
  /\ selected_start' = [selected_start EXCEPT ![s] = Some(start)]
  /\ selected_end' = [selected_end EXCEPT ![s] = Some(end)]
  /\ selected_id' = [selected_id EXCEPT ![s] =
       Some(calculate_id(SelectedText(lines, start, end), start, end))]
  /\ observed' = [observed EXCEPT ![s] =
       Some([file |-> Get(disk[Get(current_file_path[s])]),
             text |-> SelectedText(lines, start, end), clamped |-> end_arg > end,
             by |-> "select"])]
  /\ result' = [Reply("select", s, "success", "none") EXCEPT !.value =
       Some([lines |-> [k \in 1..Len(Slice(lines, start - 1, end)) |->
                         rstrip(Slice(lines, start - 1, end)[k])],
             start |-> start, end |-> end,
             id |-> calculate_id(SelectedText(lines, start, end), start, end),
             line_count |-> Len(Slice(lines, start - 1, end)),
             asked |-> << start, end_arg >>])]
  /\ UNCHANGED << disk, current_file_path, pending_modified_lines, pending_diff,
                  pc, staged, writes, committed >>

\* A mutant of ClampEnd: end is taken as given.
ClampEnd_NoClamp(end, n) == end

\* if end > len(lines): end = len(lines)
ClampEnd(end, n) == IF end > n THEN n ELSE end

\* A mutant of TooManyLines: the count is one short.
TooManyLines_OffByOne(start, end) == end - start > max_select_lines

\* end - start + 1 > self.max_select_lines
TooManyLines(start, end) == end - start + 1 > max_select_lines

\* Lines 522-534: the checks of select on a file of n lines, in their
\* order, as the error returned or "none".
SelectOutcome(n, start, end) ==
  IF start < 1 THEN "start_lt_1"
  ELSE IF start > ClampEnd(end, n) THEN "start_gt_end"
  ELSE IF TooManyLines(start, ClampEnd(end, n)) THEN "too_many_lines"
  ELSE "none"

Select(s, start, end, rd) ==
  /\ pc[s] = "idle" /\ result = NoReply
  /\ IF current_file_path[s] = None
     THEN ErrorReturn("select", s, "no_file")
     ELSE IF ReadFails(Get(current_file_path[s]), rd)
     THEN ErrorReturn("select", s, "read_error")
     ELSE LET lines == readlines(Get(disk[Get(current_file_path[s])]))
              end_c == ClampEnd(end, Len(lines))
              error == SelectOutcome(Len(lines), start, end)
          IN IF error # "none"
             THEN ErrorReturn("select", s, error)
             ELSE SelectStore(s, start, end_c, end, lines)

\* ------------------------------------------------------------------ overwrite
\* A mutant of CurrentContent: the slice starts one line late.
CurrentContent_StartsLate(lines, start, end) == Join(Slice(lines, start, end))

\* "".join(lines[start - 1 : end]) of overwrite
CurrentContent(lines, start, end) == Join(Slice(lines, start - 1, end))

\* A mutant of IdMismatch: only the line prefixes of the ids are compared.
IdMismatch_PrefixOnly(computed_id, id) ==
  SubSeq(computed_id, 1, Len(computed_id) - 1) # SubSeq(id, 1, Len(id) - 1)

\* computed_id != id
IdMismatch(computed_id, id) == computed_id # id

\* A mutant of ProcessNewLines: the lines are stored as given.
ProcessNewLines_AsGiven(new_lines) == new_lines

\* Every new line gets a newline unless it ends with one.  The second pass of
\* the source (append one to the last line when lines follow) finds nothing
\* left to do.
ProcessNewLines(new_lines) ==
  [k \in 1..Len(new_lines) |->
     IF ~EndsWithNL(new_lines[k]) THEN Append(new_lines[k], NL)
     ELSE new_lines[k]]

\* Lines 614-619: when lines follow the block (end < len(lines)) and its
\* last line still lacks a newline, one is appended to it.
TerminateBlock(processed_new_lines, end, n) ==
  IF /\ processed_new_lines # << >>
     /\ end < n
     /\ ~EndsWithNL(processed_new_lines[Len(processed_new_lines)])
  THEN [processed_new_lines EXCEPT ![Len(processed_new_lines)] = Append(@, NL)]
  ELSE processed_new_lines

\* A mutant of Splice: the line at end is kept as well.
Splice_KeepsEndLine(lines, start, end, processed_new_lines) ==
  Slice(lines, 0, start - 1) \o processed_new_lines
    \o Slice(lines, end - 1, Len(lines))

\* before + processed_new_lines + after
Splice(lines, start, end, processed_new_lines) ==
  Slice(lines, 0, start - 1) \o processed_new_lines \o Slice(lines, end, Len(lines))

\* A mutant of SyntaxCheck: each file type takes the other's strictness flag.
SyntaxCheck_FlagsSwapped(path, verdict) ==
  IF endswith(path, ".py")
  THEN IF verdict = "invalid"
       THEN [error |-> "python_syntax", auto_cancel |-> fail_on_js_syntax_error]
       ELSE IF verdict = "crash"
       THEN [error |-> "black_raised", auto_cancel |-> FALSE]
       ELSE [error |-> "none", auto_cancel |-> FALSE]
  ELSE IF enable_js_syntax_check /\ (endswith(path, ".jsx") \/ endswith(path, ".js"))
  THEN IF verdict = "invalid"
       THEN [error |-> "js_syntax", auto_cancel |-> fail_on_python_syntax_error]
       ELSE IF verdict = "crash"
       THEN [error |-> "js_check_error", auto_cancel |-> FALSE]
       ELSE [error |-> "none", auto_cancel |-> FALSE]
  ELSE [error |-> "none", auto_cancel |-> FALSE]

\* The external checker's answer, by file type: "none", or the error and
\* whether it cancels.  verdict is what black or babel did with the content:
\* "ok", "invalid" (a syntax error) or "crash" (any other failure).
SyntaxCheck(path, verdict) ==
  IF endswith(path, ".py")
  THEN IF verdict = "invalid"
       THEN [error |-> "python_syntax", auto_cancel |-> fail_on_python_syntax_error]
       ELSE IF verdict = "crash"
       THEN [error |-> "black_raised", auto_cancel |-> FALSE]
       ELSE [error |-> "none", auto_cancel |-> FALSE]
  ELSE IF enable_js_syntax_check /\ (endswith(path, ".jsx") \/ endswith(path, ".js"))
  THEN IF verdict = "invalid"
       THEN [error |-> "js_syntax", auto_cancel |-> fail_on_js_syntax_error]
       ELSE IF verdict = "crash"
       THEN [error |-> "js_check_error", auto_cancel |-> FALSE]
       ELSE [error |-> "none", auto_cancel |-> FALSE]
  ELSE [error |-> "none", auto_cancel |-> FALSE]

\* What the preview was computed from: the content of the file, the text
\* read from it, the range, the lines; and how many confirms of it have failed.
StagedFrom(s, file, lines, start, end, new_lines) ==
  Some([path |-> Get(current_file_path[s]), file |-> file, text |-> Join(lines),
        start |-> start, end |-> end, new_lines |-> new_lines, failures |-> 0,
        by |-> Get(observed[s]).by])

\* A mutant of OverwriteStore: a change that passes the check is written
\* to the file at once.
OverwriteStore_WritesThrough(s, modified_lines, diff_result, check, from) ==
  /\ IF check.error # "none" /\ check.auto_cancel
     THEN /\ pending_modified_lines' = [pending_modified_lines EXCEPT ![s] = None]
          /\ pending_diff' = [pending_diff EXCEPT ![s] = None]
          /\ staged' = [staged EXCEPT ![s] = None]
          /\ result' = Reply("overwrite", s, "auto_cancelled", check.error)
          /\ UNCHANGED disk
     ELSE /\ pending_modified_lines' =
               [pending_modified_lines EXCEPT ![s] = Some(modified_lines)]
          /\ pending_diff' = [pending_diff EXCEPT ![s] = Some(diff_result)]
          /\ staged' = [staged EXCEPT ![s] = from]
          /\ result' = Reply("overwrite", s, "preview", check.error)
          /\ disk' = [disk EXCEPT ![Get(current_file_path[s])] =
                        IF check.error = "none" THEN Some(Join(modified_lines)) ELSE @]
  /\ committed' = [committed EXCEPT ![s] = None]
  /\ UNCHANGED << current_file_path, selected_start, selected_end,
                  selected_id, pc, observed, writes >>

\* Lines 707-731: the change is stored, and taken back when the checker's
\* error cancels.
OverwriteStore(s, modified_lines, diff_result, check, from) ==
  /\ IF check.error # "none" /\ check.auto_cancel
     THEN /\ pending_modified_lines' = [pending_modified_lines EXCEPT ![s] = None]
          /\ pending_diff' = [pending_diff EXCEPT ![s] = None]
          /\ staged' = [staged EXCEPT ![s] = None]
          /\ result' = Reply("overwrite", s, "auto_cancelled", check.error)
     ELSE /\ pending_modified_lines' =
               [pending_modified_lines EXCEPT ![s] = Some(modified_lines)]
          /\ pending_diff' = [pending_diff EXCEPT ![s] = Some(diff_result)]
          /\ staged' = [staged EXCEPT ![s] = from]
          /\ result' = Reply("overwrite", s, "preview", check.error)
  /\ committed' = [committed EXCEPT ![s] = None]
  /\ UNCHANGED << disk, current_file_path, selected_start, selected_end,
                  selected_id, pc, observed, writes >>

\* A mutant of OverwriteLines: the lines that select read are used again.
OverwriteLines_FromSelect(s, path) == readlines(Get(observed[s]).file)

\* Lines 588-590: overwrite opens the file and reads its lines anew.
OverwriteLines(s, path) == readlines(Get(disk[path]))

Overwrite(s, arg, rd, verdict) ==
  /\ pc[s] = "idle" /\ result = NoReply
  /\ IF current_file_path[s] = None
     THEN ErrorReturn("overwrite", s, "no_file")
     ELSE IF selected_start[s] = None \/ selected_end[s] = None
             \/ selected_id[s] = None
     THEN ErrorReturn("overwrite", s, "no_selection")
     ELSE IF ReadFails(Get(current_file_path[s]), rd)
     THEN ErrorReturn("overwrite", s, "read_error")
     ELSE LET path == Get(current_file_path[s])
              lines == OverwriteLines(s, path)
              start == Get(selected_start[s])
              end == Get(selected_end[s])
              current_content == CurrentContent(lines, start, end)
              computed_id == calculate_id(current_content, start, end)
          IN IF IdMismatch(computed_id, Get(selected_id[s]))
             THEN ErrorReturn("overwrite", s, "conflict")
             ELSE IF arg = None
             THEN Raise("overwrite", s, "TypeError")
             ELSE IF generate_diff_preview_raises(lines, start, end)
             THEN Raise("overwrite", s, "IndexError")
             ELSE LET modified_lines ==
                        Splice(lines, start, end,
                               TerminateBlock(ProcessNewLines(Get(arg)), end,
                                              Len(lines)))
                  IN /\ Len(Join(modified_lines)) <= MaxFileLen
                     /\ OverwriteStore(s, modified_lines,
                          generate_diff_preview(lines, modified_lines, start, end),
                          SyntaxCheck(path, verdict),
                          StagedFrom(s, Get(disk[path]), lines, start, end,
                                     Get(arg)))

\* -------------------------------------------------------------------- confirm
\* open(path, "w") fails on a missing path (None) or an I/O error.
OpenForWriteFails(s, io) == io = "fail" \/ current_file_path[s] = None

\* A mutant of ConfirmClear: the selection outlives the commit.
ConfirmClear_KeepsSelection(s) ==
  /\ pending_modified_lines' = [pending_modified_lines EXCEPT ![s] = None]
  /\ pending_diff' = [pending_diff EXCEPT ![s] = None]
  /\ UNCHANGED << selected_start, selected_end, selected_id, observed >>

\* A mutant of ConfirmClear: the committed change stays pending.
ConfirmClear_KeepsPending(s) ==
  /\ selected_start' = [selected_start EXCEPT ![s] = None]
  /\ selected_end' = [selected_end EXCEPT ![s] = None]
  /\ selected_id' = [selected_id EXCEPT ![s] = None]
  /\ UNCHANGED << pending_modified_lines, pending_diff >>
  /\ observed' = [observed EXCEPT ![s] = None]

\* Lines 749-753.
ConfirmClear(s) ==
  /\ selected_start' = [selected_start EXCEPT ![s] = None]
  /\ selected_end' = [selected_end EXCEPT ![s] = None]
  /\ selected_id' = [selected_id EXCEPT ![s] = None]
  /\ pending_modified_lines' = [pending_modified_lines EXCEPT ![s] = None]
  /\ pending_diff' = [pending_diff EXCEPT ![s] = None]
  /\ observed' = [observed EXCEPT ![s] = None]

\* A mutant of ConfirmFailed: the failed commit is torn down.
ConfirmFailed_TearsDown(s) ==
  /\ result' = Reply("confirm", s, "none", "write_error")
  /\ staged' = [staged EXCEPT ![s] = Some([Get(@) EXCEPT !.failures = @ + 1])]
  /\ ConfirmClear(s)
  /\ UNCHANGED << current_file_path, writes, committed >>

\* Lines 756-757: the except branch returns the error and assigns nothing.
ConfirmFailed(s) ==
  /\ result' = Reply("confirm", s, "none", "write_error")
  /\ staged' = [staged EXCEPT ![s] = Some([Get(@) EXCEPT !.failures = @ + 1])]
  /\ UNCHANGED << session, observed, writes, committed >>

\* The committed change: the file, the first line replaced and the lines
\* the caller gave.
CommittedFrom(st) ==
  Some([path |-> Get(st).path, start |-> Get(st).start,
        new_lines |-> Get(st).new_lines, by |-> Get(st).by])

\* The call up to open(path, "w"), which creates or truncates the file.
ConfirmOpen(s, io) ==
  /\ pc[s] = "idle" /\ result = NoReply
  /\ IF pending_modified_lines[s] = None \/ pending_diff[s] = None
     THEN ErrorReturn("confirm", s, "no_pending")
     ELSE IF OpenForWriteFails(s, io)
     THEN /\ Get(staged[s]).failures < MaxWriteFailures
          /\ ConfirmFailed(s)
          /\ UNCHANGED << disk, pc >>
     ELSE /\ writes[s] < MaxCommits
          /\ disk' = [disk EXCEPT ![Get(current_file_path[s])] = Some(<< >>)]
          /\ pc' = [pc EXCEPT ![s] = "writing"]
          /\ UNCHANGED << session, history, result >>

\* writelines and the close that flushes it: the whole content reaches the
\* file and the session is cleared, or the write fails after n characters
\* and the session stays.
ConfirmWrite(s, io, n) ==
  /\ pc[s] = "writing" /\ result = NoReply
  /\ pc' = [pc EXCEPT ![s] = "idle"]
  /\ LET path == Get(current_file_path[s])
         content == writelines(Get(pending_modified_lines[s]))
     IN IF io = "fail"
        THEN /\ Get(staged[s]).failures < MaxWriteFailures
             /\ n <= MaxPartialWrite
             /\ n < Len(content) \/ n = 0
             /\ disk' = [disk EXCEPT ![path] = Some(SubSeq(content, 1, n))]
             /\ ConfirmFailed(s)
        ELSE /\ n = 0
             /\ disk' = [disk EXCEPT ![path] = Some(content)]
             /\ result' = Reply("confirm", s, "success", "none")
             /\ ConfirmClear(s)
             /\ staged' = [staged EXCEPT ![s] = None]
             /\ committed' = [committed EXCEPT ![s] = CommittedFrom(staged[s])]
             /\ writes' = [writes EXCEPT
                            ![s] = @ + 1,
                            !["retried"] =
                              IF Get(staged[s]).failures > 0 THEN @ + 1 ELSE @]
             /\ UNCHANGED current_file_path

\* --------------------------------------------------------------------- cancel
\* A mutant of Cancel: the selection is discarded with the pending change.
Cancel_DropsSelection(s) ==
  /\ pc[s] = "idle" /\ result = NoReply
  /\ IF pending_modified_lines[s] = None \/ pending_diff[s] = None
     THEN ErrorReturn("cancel", s, "no_pending")
     ELSE /\ pending_modified_lines' = [pending_modified_lines EXCEPT ![s] = None]
          /\ pending_diff' = [pending_diff EXCEPT ![s] = None]
          /\ selected_start' = [selected_start EXCEPT ![s] = None]
          /\ selected_end' = [selected_end EXCEPT ![s] = None]
          /\ selected_id' = [selected_id EXCEPT ![s] = None]
          /\ staged' = [staged EXCEPT ![s] = None]
          /\ result' = Reply("cancel", s, "success", "none")
          /\ UNCHANGED << disk, current_file_path, pc, observed, writes, committed >>

Cancel(s) ==
  /\ pc[s] = "idle" /\ result = NoReply
  /\ IF pending_modified_lines[s] = None \/ pending_diff[s] = None
     THEN ErrorReturn("cancel", s, "no_pending")
     ELSE /\ pending_modified_lines' = [pending_modified_lines EXCEPT ![s] = None]
          /\ pending_diff' = [pending_diff EXCEPT ![s] = None]
          /\ staged' = [staged EXCEPT ![s] = None]
          /\ result' = Reply("cancel", s, "success", "none")
          /\ UNCHANGED << disk, current_file_path, selected_start, selected_end,
                          selected_id, pc, observed, writes, committed >>

\* ---------------------------------------------------------------- delete_file
\* A mutant of DeleteFile: the path of the removed file stays set.
DeleteFile_KeepsPath(s, rm) ==
  /\ pc[s] = "idle" /\ result = NoReply
  /\ IF current_file_path[s] = None
     THEN ErrorReturn("delete_file", s, "no_file")
     ELSE IF disk[Get(current_file_path[s])] = None
     THEN ErrorReturn("delete_file", s, "not_found")
     ELSE IF rm = "fail"
     THEN ErrorReturn("delete_file", s, "remove_error")
     ELSE /\ writes["files"] < MaxFileCalls
          /\ writes' = [writes EXCEPT !["files"] = @ + 1]
          /\ disk' = [disk EXCEPT ![Get(current_file_path[s])] = None]
          /\ committed' = [q \in Servers |-> None]
          /\ result' = Reply("delete_file", s, "success", "none")
          /\ UNCHANGED << session, pc, observed, staged >>

\* Lines 776-799: os.remove fails (rm = "fail") or removes the current file,
\* and then no file is set; selection and pending change are not touched.
DeleteFile(s, rm) ==
  /\ pc[s] = "idle" /\ result = NoReply
  /\ IF current_file_path[s] = None
     THEN ErrorReturn("delete_file", s, "no_file")
     ELSE IF disk[Get(current_file_path[s])] = None
     THEN ErrorReturn("delete_file", s, "not_found")
     ELSE IF rm = "fail"
     THEN ErrorReturn("delete_file", s, "remove_error")
     ELSE /\ writes["files"] < MaxFileCalls
          /\ writes' = [writes EXCEPT !["files"] = @ + 1]
          /\ disk' = [disk EXCEPT ![Get(current_file_path[s])] = None]
          /\ current_file_path' = [current_file_path EXCEPT ![s] = None]
          /\ committed' = [q \in Servers |-> None]
          /\ result' = Reply("delete_file", s, "success", "none")
          /\ UNCHANGED << selected_start, selected_end, selected_id,
                          pending_modified_lines, pending_diff, pc, observed,
                          staged >>

\* ------------------------------------------------------------------- new_file
\* text = "# NEW_FILE - REMOVE THIS HEADER": one line with no newline at its
\* end; two characters stand for it.
NewFileHeader == << "b", "a" >>

\* os.path.exists(path) and os.path.getsize(path) > 0
ExistsNotEmpty(filepath) ==
  disk[filepath] # None /\ Len(Get(disk[filepath])) > 0

\* A mutant of NewFileId: the id names no range.
NewFileId_NoRange(text) == calculate_id(text, 0, 0)

\* Line 838: calculate_id(text, 1, 1)
NewFileId(text) == calculate_id(text, 1, 1)

\* Lines 802-852.  The path is set first (815); a file that exists and is
\* not empty is refused; else the header is written and line 1 selected.
\* When makedirs, open or write raises (io = "fail"), the file is left as it
\* was or, when open had succeeded (created), empty.
NewFile(s, filepath, io, created) ==
  /\ pc[s] = "idle" /\ result = NoReply
  /\ current_file_path' = [current_file_path EXCEPT ![s] = Some(filepath)]
  /\ IF ExistsNotEmpty(filepath)
     THEN /\ ~created /\ io = "ok"
          /\ result' = Reply("new_file", s, "none", "exists")
          /\ UNCHANGED << disk, selected_start, selected_end, selected_id,
                          pending_modified_lines, pending_diff, pc, history >>
     ELSE IF io = "fail"
     THEN /\ created => writes["files"] < MaxFileCalls
          /\ writes' = [writes EXCEPT !["files"] = IF created THEN @ + 1 ELSE @]
          /\ disk' = IF created THEN [disk EXCEPT ![filepath] = Some(<< >>)]
                     ELSE disk
          /\ committed' = [q \in Servers |-> None]
          /\ result' = Reply("new_file", s, "none", "create_error")
          /\ UNCHANGED << selected_start, selected_end, selected_id,
                          pending_modified_lines, pending_diff, pc, observed,
                          staged >>
     ELSE /\ ~created
          /\ writes["files"] < MaxFileCalls
          /\ writes' = [writes EXCEPT !["files"] = @ + 1]
          /\ disk' = [disk EXCEPT ![filepath] = Some(NewFileHeader)]
          /\ selected_start' = [selected_start EXCEPT ![s] = Some(1)]
          /\ selected_end' = [selected_end EXCEPT ![s] = Some(1)]
          /\ selected_id' = [selected_id EXCEPT ![s] =
               Some(NewFileId(NewFileHeader))]
          /\ observed' = [observed EXCEPT ![s] =
               Some([file |-> NewFileHeader, text |-> NewFileHeader,
                     clamped |-> FALSE, by |-> "new_file"])]
          /\ committed' = [q \in Servers |-> None]
          /\ result' = [Reply("new_file", s, "success", "none") EXCEPT !.value =
               Some([text |-> NewFileHeader, current_file_path |-> filepath,
                     id |-> NewFileId(NewFileHeader),
                     selected_start |-> 1, selected_end |-> 1])]
          /\ UNCHANGED << pending_modified_lines, pending_diff, pc, staged >>

\* -------------------------------------------------------------- find_function
\* A Python source is the sequence of its lines; a line is a class header, a
\* def header, a decorator, the header of another compound statement
\* ("block": if, for, with, try) or a simple statement, with its indentation
\* level.  Line i has line number i; ast gives a decorated definition the
\* line number of its header and each decorator its own.
LineKinds == { "class", "def", "deco", "block", "stmt" }
FunctionNames == { "f", "g" }
Headers == { "class", "def", "block" }

SourceLine(kind, name, indent) == [kind |-> kind, name |-> name, indent |-> indent]

\* The lines that may follow the lines of src in a source that parses: a
\* body one level deeper after a header, the decorated definition or one more
\* decorator after a decorator, and after a simple statement a line of its
\* block or of an enclosing one.
LinesAfterOf(kinds, src) ==
  LET at(indents) ==
        { SourceLine(kind, name, indent) :
            kind \in kinds, name \in FunctionNames, indent \in indents }
      named(l) == l.kind = "def" \/ l.name = "g"
  IN { l \in ( IF src = << >> THEN at({ 0 })
               ELSE LET last == src[Len(src)]
                    IN IF last.kind \in Headers
                       THEN at({ last.indent + 1 } \cap (0..MaxIndent))
                       ELSE IF last.kind = "deco"
                       THEN { d \in at({ last.indent }) :
                                d.kind \in { "deco", "def", "class" } }
                       ELSE at(0..last.indent) ) : named(l) }

\* The beginnings of n lines of such sources.
RECURSIVE PrefixesOf(_, _)
PrefixesOf(kinds, n) ==
  IF n = 0 THEN { << >> }
  ELSE UNION { { Append(src, l) : l \in LinesAfterOf(kinds, src) } :
                 src \in PrefixesOf(kinds, n - 1) }

\* The sources of at most n lines whose every header has a body and every
\* decorator a definition: those that end with a simple statement.
SourcesOf(kinds, n) ==
  UNION { { src \in PrefixesOf(kinds, k) : src[Len(src)].kind = "stmt" } :
            k \in 1..n }

Sources(n) == SourcesOf(LineKinds, n)

\* The last line of the block that the header at line i opens (i = 0: the
\* module).
RECURSIVE BlockEnd(_, _, _)
BlockEnd(src, i, j) ==
  IF j < Len(src) /\ (i = 0 \/ src[j + 1].indent > src[i].indent)
  THEN BlockEnd(src, i, j + 1)
  ELSE j

\* node.body: the statements one level below the header at line i, in order;
\* decorators belong to the definition they decorate.
NodeBody(src, i) ==
  LET level == IF i = 0 THEN 0 ELSE src[i].indent + 1
      RECURSIVE collect(_)
      collect(j) ==
        IF j > BlockEnd(src, i, i) THEN << >>
        ELSE IF src[j].indent = level /\ src[j].kind # "deco"
        THEN << j >> \o collect(j + 1)
        ELSE collect(j + 1)
  IN collect(i + 1)

\* node.decorator_list: the lines of the decorators above the header at line i.
RECURSIVE DecoratorList(_, _)
DecoratorList(src, i) ==
  IF i > 1 /\ src[i - 1].kind = "deco" /\ src[i - 1].indent = src[i].indent
  THEN DecoratorList(src, i - 1) \cup { i - 1 }
  ELSE { }

\* The first statement of a body that is a FunctionDef of the given name, or 0.
RECURSIVE FirstNamed(_, _, _, _)
FirstNamed(src, body, k, function_name) ==
  IF k > Len(body) THEN 0
  ELSE IF src[body[k]].kind = "def" /\ src[body[k]].name = function_name
  THEN body[k]
  ELSE FirstNamed(src, body, k + 1, function_name)

\* What find_node leaves in function_node, class_node and parent_function
\* (0: None).
Located(function_node, class_node, parent_function) ==
  [function_node |-> function_node, class_node |-> class_node,
   parent_function |-> parent_function]

\* Lines 952-980: the node itself, else a method of the class it is, else a
\* function directly nested in the function it is, else the first child in
\* which the search succeeds.
RECURSIVE find_node(_, _, _)
find_node(src, node, function_name) ==
  LET body == NodeBody(src, node)
      item == FirstNamed(src, body, 1, function_name)
      RECURSIVE children(_)
      children(k) ==
        IF k > Len(body) THEN Located(0, 0, 0)
        ELSE LET found == find_node(src, body[k], function_name)
             IN IF found.function_node # 0 THEN found ELSE children(k + 1)
  IN IF node # 0 /\ src[node].kind = "def" /\ src[node].name = function_name
     THEN Located(node, 0, 0)
     ELSE IF node # 0 /\ src[node].kind = "class" /\ item # 0
     THEN Located(item, node, 0)
     ELSE IF node # 0 /\ src[node].kind = "def" /\ item # 0
     THEN Located(item, 0, node)
     ELSE children(1)

\* The least of a non-empty set of line numbers.
MinOf(S) == CHOOSE x \in S : \A y \in S : x <= y

\* A mutant of FunctionStart: the class header is taken for every method.
FunctionStart_AnyMethod(src, found) ==
  IF found.class_node # 0 THEN found.class_node
  ELSE MinOf({ found.function_node } \cup DecoratorList(src, found.function_node))

\* Lines 991 and 1077-1090: the def line, lowered to the first decorator;
\* for a method whose line is the least of the class body, the class line.
FunctionStart(src, found) ==
  LET start_line ==
        MinOf({ found.function_node } \cup DecoratorList(src, found.function_node))
  IN IF found.class_node # 0
        /\ found.function_node =
             MinOf({ body_item : body_item \in
                      { NodeBody(src, found.class_node)[k] :
                          k \in 1..Len(NodeBody(src, found.class_node)) } })
     THEN found.class_node
     ELSE start_line

\* list(tokenize.tokenize(file.readline)).  A token has the line and column
\* where it starts, whether its type is NAME, and its string ("other" for the
\* strings the scan does not look at).  The lines are written "class C:",
\* "def f():", "@d", "if x:" and "x = 1", four spaces to an indentation level.
\* Line j gives an INDENT at column 0 or one DEDENT a closed level at the
\* column of its first word, then its words and NEWLINE; the ENCODING token
\* comes first, the closing DEDENTs and ENDMARKER on the line after the last.
Tokens(src) ==
  LET Token(line, col, is_name, string) ==
        [line |-> line, col |-> col, is_name |-> is_name, string |-> string]
      RECURSIVE Repeated(_, _)
      Repeated(token, count) ==
        IF count <= 0 THEN << >> ELSE << token >> \o Repeated(token, count - 1)
      LineTokens(j) ==
        LET l == src[j]
            c == 4 * l.indent
            prev == IF j > 1 THEN src[j - 1].indent ELSE 0
            words ==
              CASE l.kind = "class" ->
                     << Token(j, c, TRUE, "class"), Token(j, c + 6, TRUE, "other"),
                        Token(j, c + 8, FALSE, ":"), Token(j, c + 9, FALSE, "other") >>
                [] l.kind = "def" ->
                     << Token(j, c, TRUE, "def"), Token(j, c + 4, TRUE, l.name),
                        Token(j, c + 5, FALSE, "other"),
                        Token(j, c + 6, FALSE, "other"),
                        Token(j, c + 7, FALSE, ":"), Token(j, c + 8, FALSE, "other") >>
                [] l.kind = "deco" ->
                     << Token(j, c, FALSE, "other"), Token(j, c + 1, TRUE, "other"),
                        Token(j, c + 2, FALSE, "other") >>
                [] l.kind = "block" ->
                     << Token(j, c, TRUE, "other"), Token(j, c + 3, TRUE, "other"),
                        Token(j, c + 4, FALSE, ":"), Token(j, c + 5, FALSE, "other") >>
                [] OTHER ->
                     << Token(j, c, TRUE, "other"), Token(j, c + 2, FALSE, "other"),
                        Token(j, c + 4, FALSE, "other"),
                        Token(j, c + 5, FALSE, "other") >>
        IN (IF l.indent > prev THEN << Token(j, 0, FALSE, "other") >> ELSE << >>)
           \o Repeated(Token(j, c, FALSE, "other"), prev - l.indent)
           \o words
      RECURSIVE of_lines(_)
      of_lines(j) ==
        IF j > Len(src) THEN << >> ELSE LineTokens(j) \o of_lines(j + 1)
      after == Token(Len(src) + 1, 0, FALSE, "other")
  IN << Token(0, 0, FALSE, "other") >> \o of_lines(1)
     \o Repeated(after, src[Len(src)].indent) \o << after >>

\* Lines 1000-1009: the index of the first NAME token that is the searched
\* name and follows the NAME token "def"; 0 when there is none.
RECURSIVE FunctionDefIndex(_, _, _)
FunctionDefIndex(tokens, function_name, i) ==
  IF i > Len(tokens) THEN 0
  ELSE IF /\ tokens[i].is_name /\ tokens[i].string = function_name
          /\ i > 1 /\ tokens[i - 1].is_name /\ tokens[i - 1].string = "def"
  THEN i
  ELSE FunctionDefIndex(tokens, function_name, i + 1)

\* Lines 1037-1071: the loop over the tokens after the function's name;
\* the value is end_line, 0 when the loop ends without a break.
RECURSIVE TokenScan(_, _, _, _, _, _)
TokenScan(tokens, i, start_line, indent_level, in_function, nested_level) ==
  IF i > Len(tokens) THEN 0
  ELSE LET token == tokens[i]
           current_line == token.line
           current_indent == token.col
           next(inside, level) ==
             TokenScan(tokens, i + 1, start_line, indent_level, inside, level)
       IN IF current_line <= start_line THEN next(in_function, nested_level)
          ELSE IF ~in_function
          THEN next(token.string = ":", nested_level)
          ELSE IF /\ current_indent <= indent_level /\ token.is_name
                  /\ token.string \in { "def", "class" } /\ nested_level = 0
          THEN current_line - 1
          ELSE IF current_indent > indent_level /\ token.is_name
          THEN next(TRUE, IF token.string \in { "def", "class" }
                          THEN nested_level + 1 ELSE nested_level)
          ELSE IF nested_level > 0 /\ current_indent <= indent_level
          THEN next(TRUE, nested_level - 1)
          ELSE next(TRUE, nested_level)

\* Lines 992-1075: end_line of the function located at line start_line.  The
\* located function is a def of the searched name, so the token search
\* succeeds and the fallback of lines 1011-1031 is not taken.
FunctionEnd(src, function_name, start_line) ==
  LET tokens == Tokens(src)
      function_def_index == FunctionDefIndex(tokens, function_name, 1)
      indent_level == tokens[function_def_index].col
      end_line == TokenScan(tokens, function_def_index + 1, start_line,
                            indent_level, FALSE, 0)
  IN IF end_line = 0 THEN Len(src) ELSE end_line

\* Lines 908-1116 for a Python file whose source is src.  JavaScript files
\* go to _find_js_function.
FindFunction(s, src, function_name) ==
  /\ pc[s] = "idle" /\ result = NoReply
  /\ IF current_file_path[s] = None
     THEN ErrorReturn("find_function", s, "no_file")
     ELSE IF ~endswith(Get(current_file_path[s]), ".py")
     THEN /\ ~endswith(Get(current_file_path[s]), ".js")
          /\ ErrorReturn("find_function", s, "unsupported")
     ELSE IF disk[Get(current_file_path[s])] = None
     THEN ErrorReturn("find_function", s, "read_error")
     ELSE LET found == find_node(src, 0, function_name)
          IN IF found.function_node = 0
             THEN /\ result' = [Reply("find_function", s, "none", "not_found")
                                  EXCEPT !.value = Some([src |-> src])]
                  /\ UNCHANGED << disk, session, pc, history >>
             ELSE /\ result' =
                       [Reply("find_function", s, "success", "none") EXCEPT !.value =
                          Some([src |-> src, function_name |-> function_name,
                                found |-> found,
                                start_line |-> FunctionStart(src, found),
                                end_line |->
                                  FunctionEnd(src, function_name,
                                              found.function_node),
                                is_nested |-> found.parent_function # 0,
                                parent_function |->
                                  IF found.parent_function # 0
                                  THEN Some(src[found.parent_function].name)
                                  ELSE None])]
                  /\ UNCHANGED << disk, session, pc, history >>

\* ---------------------------------------------------------- _find_js_function
\* A JavaScript source is a text over braces, two kinds of quote, the
\* backslash and the newline; the character "F" stands for the text that the
\* patterns match before the opening brace ("function f()", and the like,
\* with the searched name).
JsQuotes == { "\"", "'" }
JsChar == { "{", "}", "\\", NL } \cup JsQuotes
JsHeader == "F"

\* matches[0].start() as an offset from 0, or -1: the first place where the
\* header stands before an opening brace.
RECURSIVE JsMatchStart(_, _)
JsMatchStart(source_code, i) ==
  IF i + 1 >= Len(source_code) THEN -1
  ELSE IF source_code[i + 1] = JsHeader /\ source_code[i + 2] = "{" THEN i
  ELSE JsMatchStart(source_code, i + 1)

\* Lines 1245-1252 and 1283-1290: the number of the line that holds the
\* offset, found by adding up the lengths of the lines; 1 when no line
\* holds it.
RECURSIVE LineOfOffset(_, _, _, _)
LineOfOffset(lines, offset, i, pos) ==
  IF i > Len(lines) THEN 1
  ELSE IF pos <= offset /\ offset < pos + Len(lines[i]) THEN i
  ELSE LineOfOffset(lines, offset, i + 1, pos + Len(lines[i]))

\* Lines 1256-1281: end_pos, the offset after the brace at which the count
\* of braces outside strings comes back to 0, or start_pos when it never
\* does.
RECURSIVE BraceScan(_, _, _, _, _, _, _)
BraceScan(source_code, start_pos, i, brace_count, in_string, string_delimiter, escaped) ==
  IF i >= Len(source_code) THEN start_pos
  ELSE LET char == source_code[i + 1]
           quote == ~escaped /\ char \in JsQuotes
           in_string_now ==
             IF quote /\ ~in_string THEN TRUE
             ELSE IF quote /\ char = string_delimiter THEN FALSE
             ELSE in_string
           delimiter_now ==
             IF quote /\ ~in_string THEN char ELSE string_delimiter
       IN IF char = "\\" /\ ~escaped
          THEN BraceScan(source_code, start_pos, i + 1, brace_count,
                         in_string_now, delimiter_now, TRUE)
          ELSE IF ~in_string_now /\ char = "{"
          THEN BraceScan(source_code, start_pos, i + 1, brace_count + 1,
                         in_string_now, delimiter_now, FALSE)
          ELSE IF ~in_string_now /\ char = "}" /\ brace_count - 1 = 0
          THEN i + 1
          ELSE IF ~in_string_now /\ char = "}"
          THEN BraceScan(source_code, start_pos, i + 1, brace_count - 1,
                         in_string_now, delimiter_now, FALSE)
          ELSE BraceScan(source_code, start_pos, i + 1, brace_count,
                         in_string_now, delimiter_now, FALSE)

\* What _find_js_function_babel gives: None (babel is missing, fails or
\* finds nothing) or the lines babel reports.
BabelResults == { None, Some([start_line |-> 1, end_line |-> 1]) }

\* find_function on a JavaScript file (lines 933-938) and _find_js_function
\* (lines 1169-1306): the answer of babel when there is one, else the first
\* match of the patterns and the scan for its closing brace.
FindJsFunction(s, source_code, babel_result) ==
  /\ pc[s] = "idle" /\ result = NoReply
  /\ current_file_path[s] # None
  /\ endswith(Get(current_file_path[s]), ".js")
  /\ IF disk[Get(current_file_path[s])] = None
     THEN ErrorReturn("find_function", s, "read_error")
     ELSE IF enable_js_syntax_check /\ babel_result # None
     THEN /\ result' = [Reply("find_function", s, "success", "none") EXCEPT
                         !.value = Some([source_code |-> source_code,
                                         start_line |-> Get(babel_result).start_line,
                                         end_line |-> Get(babel_result).end_line,
                                         parser |-> "babel"])]
          /\ UNCHANGED << disk, session, pc, history >>
     ELSE LET lines == SplitKeepEnds(source_code, 1, << >>)
              start_pos == JsMatchStart(source_code, 0)
              end_pos == BraceScan(source_code, start_pos, start_pos, 0, FALSE,
                                   "", FALSE)
          IN IF start_pos = -1
             THEN ErrorReturn("find_function", s, "not_found")
             ELSE /\ result' =
                       [Reply("find_function", s, "success", "none") EXCEPT
                          !.value = Some([source_code |-> source_code,
                                          start_line |->
                                            LineOfOffset(lines, start_pos, 1, 0),
                                          end_line |->
                                            LineOfOffset(lines, end_pos, 1, 0),
                                          parser |-> "scan"])]
                  /\ UNCHANGED << disk, session, pc, history >>

\* ------------------------------------------------------------- other writers
\* A process that is no server rewrites an existing file.
ExternalWrite(path, text) ==
  /\ result = NoReply
  /\ disk[path] # None
  /\ disk[path] # Some(text)
  /\ writes["other"] < MaxExternalWrites
  /\ writes' = [writes EXCEPT !["other"] = @ + 1]
  /\ disk' = [disk EXCEPT ![path] = Some(text)]
  /\ committed' = [s \in Servers |-> None]
  /\ UNCHANGED << session, pc, observed, staged, result >>

\* ---------------------------------------------------- mcp_text_editor.service
\* sorted(ranges, key=lambda x: x.start): a stable sort, built by inserting
\* each range after those whose start is not greater.
InsertByStart(x, seq) ==
  LET k == Cardinality({ i \in 1..Len(seq) : seq[i].start <= x.start })
  IN SubSeq(seq, 1, k) \o << x >> \o SubSeq(seq, k + 1, Len(seq))

RECURSIVE SortedByStart(_)
SortedByStart(ranges) ==
  IF ranges = << >> THEN << >>
  ELSE InsertByStart(ranges[Len(ranges)],
                     SortedByStart(SubSeq(ranges, 1, Len(ranges) - 1)))

\* range_.end or total_lines: an end of None or 0 gives total_lines.
EndOr(end, total_lines) ==
  IF end = None \/ end = Some(0) THEN total_lines ELSE Get(end)

\* The loop of validate_ranges from the i-th sorted range on.
RECURSIVE ValidateRangesFrom(_, _, _, _)
ValidateRangesFrom(sorted_ranges, i, prev_end, total_lines) ==
  IF i > Len(sorted_ranges) THEN TRUE
  ELSE LET range_ == sorted_ranges[i]
           range_end == EndOr(range_.end, total_lines)
       IN IF range_.start <= prev_end THEN FALSE
          ELSE IF range_.start < 1 THEN FALSE
          ELSE IF range_end > total_lines THEN FALSE
          ELSE IF range_.end # None /\ Get(range_.end) < range_.start THEN FALSE
          ELSE ValidateRangesFrom(sorted_ranges, i + 1, range_end, total_lines)

validate_ranges(ranges, total_lines) ==
  ValidateRangesFrom(SortedByStart(ranges), 1, 0, total_lines)

\* The loop of validate_patches from the i-th sorted patch on.
RECURSIVE ValidatePatchesFrom(_, _, _, _)
ValidatePatchesFrom(sorted_patches, i, prev_end, total_lines) ==
  IF i > Len(sorted_patches) THEN TRUE
  ELSE LET patch == sorted_patches[i]
           patch_end == EndOr(patch.end, total_lines)
       IN IF patch.start <= prev_end THEN FALSE
          ELSE IF patch_end > total_lines THEN FALSE
          ELSE ValidatePatchesFrom(sorted_patches, i + 1, patch_end, total_lines)

validate_patches(patches, total_lines) ==
  ValidatePatchesFrom(SortedByStart(patches), 1, 0, total_lines)

\* The (start, end) pairs given to the validators: any integers in the
\* bounds, and no end at all.
RangeValues ==
  [start : 0..MaxRangeLine, end : { None } \cup { Some(e) : e \in 0..MaxRangeLine }]

RangeLists == UNION { [1..k -> RangeValues] : k \in 0..MaxRanges }

\* Lists are drawn where a call can be made: after the last reply was taken.
RangeListsNow == IF result = NoReply THEN RangeLists ELSE { }

\* A call of TextEditorService.validate_ranges(ranges, total_lines).
ValidateRanges(ranges, total_lines) ==
  /\ result = NoReply
  /\ result' = [Reply("validate_ranges", "s1", "success", "none") EXCEPT !.value =
       Some([ranges |-> ranges, total_lines |-> total_lines,
             verdict |-> validate_ranges(ranges, total_lines)])]
  /\ UNCHANGED << disk, session, pc, history >>

\* A call of TextEditorService.validate_patches(patches, total_lines).
ValidatePatches(patches, total_lines) ==
  /\ result = NoReply
  /\ result' = [Reply("validate_patches", "s1", "success", "none") EXCEPT !.value =
       Some([ranges |-> patches, total_lines |-> total_lines,
             verdict |-> validate_patches(patches, total_lines)])]
  /\ UNCHANGED << disk, session, pc, history >>

\* list[lo:hi] = items, with the indices of a slice: a negative index counts
\* from the end, and both are cut to the list.
SliceIndex(i, n) == IF i < 0 THEN Max(i + n, 0) ELSE Min(i, n)

SliceAssign(list, lo, hi, items) ==
  LET a == SliceIndex(lo, Len(list))
      b == Max(SliceIndex(hi, Len(list)), a)
  IN SubSeq(list, 1, a) \o items \o SubSeq(list, b + 1, Len(list))

\* Lines 84-89: the patches are applied in the order of the list, each at
\* the indices of its range in the file as it was read.
RECURSIVE ApplyPatches(_, _, _, _)
ApplyPatches(new_lines, patches, i, n) ==
  IF i > Len(patches) THEN new_lines
  ELSE LET patch == patches[i]
           start_idx == patch.start - 1
           end_idx == EndOr(patch.end, n)
           patch_lines == SplitKeepEnds(patch.contents, 1, << >>)
       IN ApplyPatches(SliceAssign(new_lines, start_idx, end_idx, patch_lines),
                       patches, i + 1, n)

\* A mutant of InvalidPatches: the patches are not validated.
InvalidPatches_Unchecked(patches, total_lines) == FALSE

\* if not self.validate_patches(operation.patches, len(lines))
InvalidPatches(patches, total_lines) == ~validate_patches(patches, total_lines)

\* The EditResult of a call, with what the call was given.
EditResult(path, operation, status, reason, hash) ==
  [Reply("edit_file", "s1", status, reason) EXCEPT !.value =
     Some([path |-> path, asked |-> operation, hash |-> hash])]

\* TextEditorService.edit_file(file_path, operation); io is what the file
\* system does when the file is opened for writing.
EditFile(file_path, operation, io) ==
  /\ result = NoReply
  /\ UNCHANGED << session, pc, history >>
  /\ IF disk[file_path] = None
     THEN /\ result' = EditResult(file_path, operation, "error", "not_found", None)
          /\ UNCHANGED disk
     ELSE LET current_content == UniversalNewlines(Get(disk[file_path]))
              current_hash == calculate_hash(current_content, 0, 0)
              lines == SplitKeepEnds(current_content, 1, << >>)
              new_content ==
                Join(ApplyPatches(lines, operation.patches, 1, Len(lines)))
          IN IF current_hash # operation.hash
             THEN /\ result' = EditResult(file_path, operation, "error",
                                          "hash_mismatch", Some(current_hash))
                  /\ UNCHANGED disk
             ELSE IF InvalidPatches(operation.patches, Len(lines))
             THEN /\ result' = EditResult(file_path, operation, "error",
                                          "invalid_patches", Some(current_hash))
                  /\ UNCHANGED disk
             ELSE IF io = "fail"
             THEN /\ result' = EditResult(file_path, operation, "error",
                                          "io_error", None)
                  /\ UNCHANGED disk
             ELSE /\ Len(new_content) <= MaxFileLen
                  /\ disk' = [disk EXCEPT ![file_path] =
                                Some(TranslateOnWrite(new_content))]
                  /\ result' = EditResult(file_path, operation, "ok", "none",
                                          Some(calculate_hash(new_content, 0, 0)))

\* The patches given to edit_file: a range and the text that replaces it.
PatchContents == { << >>, << "b", NL >> }

PatchValues ==
  [start : 1..MaxPatchLine,
   end : { None } \cup { Some(e) : e \in 1..MaxPatchLine },
   contents : PatchContents]

PatchLists == UNION { [1..k -> PatchValues] : k \in 0..MaxPatches }

\* The hash the caller passes: the hash of the file as it is now, or of an
\* empty text.
EditHashes(path) ==
  { calculate_hash(text, 0, 0) :
      text \in { << >> }
               \cup (IF disk[path] = None THEN { }
                     ELSE { UniversalNewlines(Get(disk[path])) }) }

\* Operations are drawn where a call can be made: after the last reply was
\* taken; where no file is, the patches are never looked at and none are
\* drawn.
EditOperationsNow(path) ==
  IF result # NoReply THEN { }
  ELSE [hash : EditHashes(path),
        patches : IF disk[path] = None THEN { << >> } ELSE PatchLists]

\* ------------------------------------------------- calls of the diff preview
\* The lines a caller passes: with their newline, as readlines gives them, or
\* without, as the tests pass them.
DiffLineValues == { << "a" >>, << "b", NL >> }

DiffLists(n) == UNION { [1..k -> DiffLineValues] : k \in 0..n }

\* Lists are drawn where a call can be made: after the last reply was taken.
DiffListsNow(n) == IF result = NoReply THEN DiffLists(n) ELSE { }

\* A direct call of generate_diff_preview(original_lines, modified_lines,
\* start, end), where modified_lines is original_lines with the lines
\* start..end replaced by block.
DiffPreview(original_lines, block, start, end) ==
  /\ result = NoReply
  /\ 1 <= start /\ start <= end
  /\ IF generate_diff_preview_raises(original_lines, start, end)
     THEN Raise("generate_diff_preview", "s1", "IndexError")
     ELSE /\ result' =
               [Reply("generate_diff_preview", "s1", "success", "none")
                  EXCEPT !.value =
                    Some([original_lines |-> original_lines, block |-> block,
                          start |-> start, end |-> end,
                          diff_lines |->
                            generate_diff_preview(original_lines,
                              Splice(original_lines, start, end, block),
                              start, end)])]
          /\ UNCHANGED << disk, session, pc, history >>

\* ------------------------------------------------------------- specification
LineArgs == 0..MaxLineArg
IoOutcomes == { "ok", "fail" }
Verdicts == { "ok", "invalid", "crash" }

\* The calls of one server, with their arguments and the outcomes of the
\* file system and the syntax checker drawn from the given sets.
CallWith(s, line_args, new_lines_args, io_outcomes, verdicts) ==
  \/ \E filepath \in Paths : SetFile(s, filepath)
  \/ \E start \in line_args, end \in line_args, rd \in io_outcomes :
       Select(s, start, end, rd)
  \/ \E arg \in new_lines_args, rd \in io_outcomes, verdict \in verdicts :
       Overwrite(s, arg, rd, verdict)
  \/ \E io \in io_outcomes : ConfirmOpen(s, io)
  \/ \E io \in io_outcomes, n \in 0..MaxPartialWrite : ConfirmWrite(s, io, n)
  \/ Cancel(s)

\* One server and a writer outside it; the file system does not fail.
Next ==
  \/ CallWith("s1", LineArgs, NewLinesArgs, { "ok" }, Verdicts)
  \/ \E path \in Paths, text \in ExternalTexts : ExternalWrite(path, text)
  \/ TakeReply

Spec == Init /\ [][Next]_vars

\* One text file, of one line or of three.
InitFaults ==
  /\ InitSession
  /\ \E text \in { << "b" >>, << "a", NL, "b", NL, "a" >> } :
       disk = [q \in Paths |->
         IF q = << "notes", ".txt" >> THEN Some(text) ELSE None]

\* One server on a file system that fails: reads and writes may raise.
NextFaults ==
  \/ CallWith("s1", LineArgs, NewLinesArgs, IoOutcomes, { "ok" })
  \/ TakeReply

SpecFaults == InitFaults /\ [][NextFaults]_vars

\* Two servers on one text file, no other writer and no I/O failure.
InitTwo ==
  /\ InitSession
  /\ disk = [q \in Paths |->
       IF q = << "notes", ".txt" >> THEN Some(<< "a", NL, "b", NL >>) ELSE None]

NextTwo ==
  \/ \E s \in Servers :
       CallWith(s, 1..MaxLineArgTwo, { Some(<< <<"a">> >>) }, { "ok" }, { "ok" })
  \/ TakeReply

SpecTwo == InitTwo /\ [][NextTwo]_vars

\* What another writer makes of the three-line file: its last line changed,
\* or its first line removed.
ExternalEdits == { << "a", NL, "b", NL, "b" >>, << "b", NL, "a" >> }

InitShared ==
  /\ InitSession
  /\ disk = [q \in Paths |->
       IF q = << "notes", ".txt" >> THEN Some(<< "a", NL, "b", NL, "a" >>)
       ELSE None]

\* One server on a text file that another writer edits in places.
NextShared ==
  \/ CallWith("s1", LineArgs, NewLinesArgs, { "ok" }, { "ok" })
  \/ \E path \in Paths, text \in ExternalEdits : ExternalWrite(path, text)
  \/ TakeReply

SpecShared == InitShared /\ [][NextShared]_vars

\* The texts a caller of the fingerprint functions passes.
Texts == UNION { [1..k -> Char] : k \in 0..MaxTextLen }

\* Texts are drawn where a call can be made: after the last reply was taken.
TextsNow == IF result = NoReply THEN Texts ELSE { }

\* A direct call of calculate_id(text, start, end), as the tests make it; a
\* bound of 0 also stands for one that is not given.
CalculateId(s, text, start, end) ==
  /\ pc[s] = "idle" /\ result = NoReply
  /\ result' = [Reply("calculate_id", s, "success", "none") EXCEPT !.value =
       Some([text |-> text, start |-> start, end |-> end,
             id |-> calculate_id(text, start, end)])]
  /\ UNCHANGED << disk, session, pc, history >>

\* A direct call of calculate_hash(content, line_start, line_end).
CalculateHash(s, content, line_start, line_end) ==
  /\ pc[s] = "idle" /\ result = NoReply
  /\ result' = [Reply("calculate_hash", s, "success", "none") EXCEPT !.value =
       Some([text |-> content, start |-> line_start, end |-> line_end,
             id |-> calculate_hash(content, line_start, line_end)])]
  /\ UNCHANGED << disk, session, pc, history >>

\* One server that selects in a text file, and a caller of the fingerprint
\* functions.
NextIds ==
  \/ \E filepath \in Paths : SetFile("s1", filepath)
  \/ \E start \in LineArgs, end \in LineArgs : Select("s1", start, end, "ok")
  \/ \E text \in TextsNow, start \in LineArgs, end \in LineArgs :
       \/ CalculateId("s1", text, start, end)
       \/ CalculateHash("s1", text, start, end)
  \/ TakeReply

SpecIds == InitFaults /\ [][NextIds]_vars

\* A caller of the bulk validators.
NextValidate ==
  \/ \E ranges \in RangeListsNow, total_lines \in 0..MaxRangeLine :
       \/ ValidateRanges(ranges, total_lines)
       \/ ValidatePatches(ranges, total_lines)
  \/ TakeReply

SpecValidate == InitShared /\ [][NextValidate]_vars

\* A caller of edit_file on a text file of two lines, and on a path where
\* no file is.
NextEdit ==
  \/ \E path \in { << "notes", ".txt" >>, << "mod", ".py" >> } :
       \E operation \in EditOperationsNow(path), io \in IoOutcomes :
         EditFile(path, operation, io)
  \/ TakeReply

SpecEdit == InitTwo /\ [][NextEdit]_vars

\* A caller of generate_diff_preview.
NextDiff ==
  \/ \E original_lines \in DiffListsNow(MaxDiffLines), block \in DiffListsNow(MaxBlock),
        start \in 1..MaxDiffLines, end \in 1..MaxDiffLines :
       DiffPreview(original_lines, block, start, end)
  \/ TakeReply

SpecDiff == InitShared /\ [][NextDiff]_vars

\* The replacement lines of test_overwrite_different_line_count and its
\* like: one line, two lines of which one ends with a newline, three (one
\* more than select takes), and a line that holds a newline inside.
RoundTripArgs ==
  { Some(<< <<"a">> >>), Some(<< <<"b", NL>>, <<"a">> >>),
    Some(<< << >>, << >>, << >> >>), Some(<< <<"a", NL, "b">> >>) }

\* One server that edits a text file and selects again; nothing else writes.
NextRoundTrip ==
  \/ CallWith("s1", LineArgs, RoundTripArgs, { "ok" }, { "ok" })
  \/ TakeReply

SpecRoundTrip == InitFaults /\ [][NextRoundTrip]_vars

\* Sources are drawn where a call can be made: after the last reply was taken.
SourcesNow == IF result = NoReply THEN Sources(MaxSourceLines) ELSE { }

\* A text file and a Python file.
InitFind ==
  /\ InitSession
  /\ disk = [q \in Paths |->
       IF q \in { << "notes", ".txt" >>, << "mod", ".py" >> }
       THEN Some(<< "a", NL >>) ELSE None]

\* One server whose caller looks for the definition of f.
NextFind ==
  \/ \E filepath \in { << "notes", ".txt" >>, << "mod", ".py" >> } :
       SetFile("s1", filepath)
  \/ \E src \in SourcesNow : FindFunction("s1", src, "f")
  \/ TakeReply

SpecFind == InitFind /\ [][NextFind]_vars

\* Sources of classes, functions and simple statements only are drawn for a
\* call on a Python file.
PlainSourcesNow ==
  IF result = NoReply /\ current_file_path["s1"] = Some(<< "mod", ".py" >>)
  THEN SourcesOf({ "class", "def", "stmt" }, MaxPlainLines)
  ELSE { }

\* One server whose caller looks for f in sources that may define it twice.
NextPrefer ==
  \/ SetFile("s1", << "mod", ".py" >>)
  \/ \E src \in PlainSourcesNow : FindFunction("s1", src, "f")
  \/ TakeReply

SpecPrefer == InitFind /\ [][NextPrefer]_vars

\* JavaScript sources: the function opens the file or its second line, and
\* at most MaxJsLen characters follow the opening brace.
JsSourcesNow ==
  IF result = NoReply /\ current_file_path["s1"] = Some(<< "app", ".js" >>)
  THEN { lead \o << JsHeader, "{" >> \o rest :
           lead \in { << >>, << NL >> },
           rest \in UNION { [1..k -> JsChar] : k \in 0..MaxJsLen } }
       \cup { << "{", "}" >> }
  ELSE { }

\* A JavaScript file.
InitJs ==
  /\ InitSession
  /\ disk = [q \in Paths |->
       IF q = << "app", ".js" >> THEN Some(<< "b", NL >>) ELSE None]

\* One server whose caller looks for a function in a JavaScript file.
NextJs ==
  \/ SetFile("s1", << "app", ".js" >>)
  \/ \E source_code \in JsSourcesNow, babel_result \in BabelResults :
       FindJsFunction("s1", source_code, babel_result)
  \/ TakeReply

SpecJs == InitJs /\ [][NextJs]_vars

\* An empty text file, as test_new_file has it, and nothing else.
InitFiles ==
  /\ InitSession
  /\ disk = [q \in Paths |->
       IF q = << "notes", ".txt" >> THEN Some(<< >>) ELSE None]

\* The paths the caller names: the text file and one that is protected.
FilePaths == { << "notes", ".txt" >>, << "prod", ".env" >> }

\* The lines a caller puts in place of the header.
NewFileArgs == { Some(<< <<"a">> >>), Some(<< <<"b", NL>>, <<"a">> >>) }

\* One server whose caller also creates and deletes files; removing and
\* creating a file may fail.
NextFiles ==
  \/ \E filepath \in FilePaths : SetFile("s1", filepath)
  \/ \E start \in 1..MaxLineArgFiles, end \in 1..MaxLineArgFiles :
       Select("s1", start, end, "ok")
  \/ \E arg \in NewFileArgs : Overwrite("s1", arg, "ok", "ok")
  \/ ConfirmOpen("s1", "ok")
  \/ ConfirmWrite("s1", "ok", 0)
  \/ Cancel("s1")
  \/ \E filepath \in FilePaths, io \in IoOutcomes, created \in BOOLEAN :
       NewFile("s1", filepath, io, created)
  \/ \E rm \in IoOutcomes : DeleteFile("s1", rm)
  \/ TakeReply

SpecFiles == InitFiles /\ [][NextFiles]_vars

\* Two files to go between, a text file and a Python file, as the tests'
\* temp_file and python_test_file.
InitSwitch ==
  /\ InitSession
  /\ disk = [q \in Paths |->
       IF q = << "notes", ".txt" >> THEN Some(<< "a", NL, "b", NL >>)
       ELSE IF q = << "mod", ".py" >> THEN Some(<< "b", NL >>)
       ELSE None]

\* One server whose caller moves between the two files, creates a third
\* and deletes the current one, in any order with the editing calls.
NextSwitch ==
  \/ \E filepath \in { << "notes", ".txt" >>, << "mod", ".py" >> } :
       SetFile("s1", filepath)
  \/ \E start \in 1..MaxLineArgTwo, end \in 1..MaxLineArgTwo :
       Select("s1", start, end, "ok")
  \/ Overwrite("s1", Some(<< <<"a">> >>), "ok", "ok")
  \/ ConfirmOpen("s1", "ok")
  \/ ConfirmWrite("s1", "ok", 0)
  \/ Cancel("s1")
  \/ NewFile("s1", << "app", ".js" >>, "ok", FALSE)
  \/ DeleteFile("s1", "ok")
  \/ TakeReply

SpecSwitch == InitSwitch /\ [][NextSwitch]_vars

\* ------------------------------------------------------------------ callers
\* The connections of the HTTP transport.
Callers == { "c1", "c2" }

\* The module creates one TextEditorServer and runs it for every connection;
\* the session is the attributes of that object.
ServerOf(caller) == "s1"

\* ------------------------------------------------------------------- claims
\* The step is a call of op on server s that returns now.
Returned(op, s) == result = NoReply /\ result'.op = op /\ result'.srv = s

\* The text of the selected lines of server s in its file as it is now.
RangeTextNow(s) ==
  SelectedText(readlines(Get(disk[Get(current_file_path[s])])),
               Get(selected_start[s]), Get(selected_end[s]))

HasSelection(s) ==
  selected_start[s] # None /\ selected_end[s] # None /\ selected_id[s] # None
HasPending(s) == pending_modified_lines[s] # None /\ pending_diff[s] # None
FileReadable(s) ==
  current_file_path[s] # None /\ disk[Get(current_file_path[s])] # None

\* C1: an overwrite called with a list of lines while the selected lines of
\* the readable file no longer have the text that select read (the file was
\* rewritten in between) fails with the id-verification error, stages nothing
\* and leaves the file alone.
C1_ChangedRangeIsConflict ==
  [][\A s \in Servers :
       ( /\ Returned("overwrite", s)
         /\ FileReadable(s) /\ HasSelection(s)
         /\ result'.error # "read_error" /\ result'.status # "raised"
         /\ RangeTextNow(s) # Get(observed[s]).text )
       => ( /\ result'.error = "conflict"
            /\ UNCHANGED << disk, session >> )]_vars

\* C2: when a confirm of server s opens the file for writing, no other server
\* being in the middle of a write, the file still holds the content from
\* which overwrite computed the change of s: a confirm never replaces content
\* that another writer committed after the change was proposed.
C2_ConfirmSeesProposedContent ==
  [][\A s \in Servers :
       ( /\ pc[s] = "idle" /\ pc'[s] = "writing"
         /\ \A t \in Servers \ { s } : pc[t] = "idle" )
       => disk[Get(current_file_path[s])] = Some(Get(staged[s]).file)]_vars

\* The index of the newline that ends line k of text; 0 for k = 0, and the
\* length of the text when line k is its last line and is not terminated.
EndOfLine(text, k) ==
  LET at == { i \in 1..Len(text) :
                /\ text[i] = NL
                /\ Cardinality({ j \in 1..i : text[j] = NL }) = k }
  IN IF k = 0 THEN 0
     ELSE IF at = { } THEN Len(text)
     ELSE CHOOSE i \in at : TRUE

RECURSIVE EachTerminated(_)
\* The given lines one after the other, each ended by exactly one newline
\* more than it has unless it ends with one.
EachTerminated(new_lines) ==
  IF new_lines = << >> THEN << >>
  ELSE LET line == Head(new_lines)
       IN (IF line # << >> /\ line[Len(line)] = NL THEN line ELSE line \o << NL >>)
            \o EachTerminated(Tail(new_lines))

\* before[:start-1] + the new lines, each terminated + before[end:], as text.
RoundTrip(before, start, end, new_lines) ==
  SubSeq(before, 1, EndOfLine(before, start - 1))
    \o EachTerminated(new_lines)
    \o SubSeq(before, EndOfLine(before, end) + 1, Len(before))

\* The content cut after every newline, as it is in the file.
LinesOf(content) == SplitKeepEnds(content, 1, << >>)

\* C3: when a confirm succeeds, the file is the content that overwrite found
\* in it with lines start..end replaced by the new lines, each terminated by
\* a newline; the lines before start and the lines after end are in the file
\* as they were, whatever the number of new lines.
C3_RoundTrip ==
  [][\A s \in Servers :
       (Returned("confirm", s) /\ result'.status = "success")
       => LET st == Get(staged[s])
              old == LinesOf(st.file)
              new == LinesOf(Get(disk'[st.path]))
              tail == Len(old) - st.end
          IN /\ disk'[st.path] =
                  Some(RoundTrip(st.file, st.start, st.end, st.new_lines))
             /\ SubSeq(new, 1, st.start - 1) = SubSeq(old, 1, st.start - 1)
             /\ SubSeq(new, Len(new) - tail + 1, Len(new))
                  = SubSeq(old, st.end + 1, Len(old))]_vars

ValidationAndConflictErrors ==
  { "no_file", "no_selection", "no_pending", "start_lt_1", "start_gt_end",
    "too_many_lines", "conflict" }

\* C4: a call of select, overwrite, confirm or cancel that returns a
\* validation or conflict error leaves the session of every server and the
\* files as they were.
C4_ErrorsChangeNothing ==
  [][\A s \in Servers :
       ( /\ result = NoReply /\ result'.srv = s
         /\ result'.op \in { "select", "overwrite", "confirm", "cancel" }
         /\ result'.error \in ValidationAndConflictErrors )
       => UNCHANGED << disk, session >>]_vars

\* An overwrite has just failed id verification on a server that holds a
\* selection and a pending change.
C4_Witness ==
  \E s \in Servers :
    /\ result = Reply("overwrite", s, "none", "conflict")
    /\ HasSelection(s) /\ HasPending(s)

\* C5: an overwrite called while the selected lines of the file have the
\* text that select read (as they have when nothing wrote the file in
\* between) does not fail id verification, also when select clamped end.
C5_UnchangedRangeVerifies ==
  [][\A s \in Servers :
       ( /\ Returned("overwrite", s)
         /\ FileReadable(s) /\ HasSelection(s)
         /\ RangeTextNow(s) = Get(observed[s]).text )
       => result'.error \notin { "conflict", "no_selection", "no_file" }]_vars

\* An overwrite has just staged a change for a selection whose end was
\* clamped to the length of the file.
C5_Witness ==
  \E s \in Servers :
    /\ result = Reply("overwrite", s, "preview", "none")
    /\ observed[s] # None /\ Get(observed[s]).clamped
    /\ HasPending(s)

C7_FailedConfirmKeepsPending ==
  [][\A s \in Servers :
       /\ (Returned("confirm", s) /\ result'.error = "write_error")
          => /\ SessionOf(s)' = SessionOf(s)
             /\ HasSelection(s)' /\ HasPending(s)'
       /\ (Returned("confirm", s) /\ result'.status = "success")
          => disk'[Get(current_file_path[s])]
               = Some(writelines(Get(pending_modified_lines[s])))]_vars

\* A confirm has just committed a change whose earlier confirm had failed.
C7_Witness ==
  \E s \in Servers :
    /\ result = Reply("confirm", s, "success", "none")
    /\ writes[s] >= 1 /\ writes["retried"] >= 1
    /\ ~HasSelection(s) /\ ~HasPending(s)

\* C8: a successful cancel clears the pending change and nothing else: the
\* files, the path and the selection stay, so that an overwrite after it is
\* not refused for want of a selection.
C8_CancelClearsOnlyPending ==
  [][\A s \in Servers :
       /\ (Returned("cancel", s) /\ result'.status = "success")
          => /\ HasPending(s)
             /\ pending_modified_lines'[s] = None /\ pending_diff'[s] = None
             /\ UNCHANGED << disk, current_file_path, selected_start,
                             selected_end, selected_id >>
       /\ (Returned("overwrite", s) /\ current_file_path[s] # None
             /\ HasSelection(s))
          => result'.error # "no_selection"]_vars

\* A cancel has just succeeded and the selection is still there.
C8_Witness ==
  \E s \in Servers :
    /\ result = Reply("cancel", s, "success", "none")
    /\ HasSelection(s) /\ ~HasPending(s)

\* C9: no overwrite, whatever it returns, changes a file; a file changes only
\* in a step of a confirm of a server that has a pending change for it, or
\* by the hand of a writer outside the servers.
C9_OnlyConfirmWrites ==
  [][/\ \A s \in Servers : Returned("overwrite", s) => disk' = disk
     /\ \A p \in Paths :
          disk'[p] # disk[p]
          => \/ writes'["other"] # writes["other"]
             \/ \E s \in Servers :
                  /\ pc[s] # pc'[s]
                  /\ HasPending(s)
                  /\ current_file_path[s] = Some(p)]_vars

\* An overwrite has just been cancelled by the syntax check, with the file
\* as it was selected.
C9_Witness ==
  \E s \in Servers :
    /\ result = Reply("overwrite", s, "auto_cancelled", "python_syntax")
    /\ FileReadable(s) /\ HasSelection(s)
    /\ RangeTextNow(s) = Get(observed[s]).text

\* C10: every step of a confirm leaves the file with its old content or with
\* the whole new content: the file is never seen empty or partly written.
C10_CommitIsAtomic ==
  [][\A s \in Servers :
       (pc[s] # pc'[s])
       => disk'[Get(current_file_path[s])]
            \in { disk[Get(current_file_path[s])],
                  Some(writelines(Get(pending_modified_lines[s]))) }]_vars

\* C11: a call made by one caller leaves the session that another caller
\* works with (current file, selection, pending change) as it was, here
\* when that other caller holds a selection.
C11_CallersDoNotInterfere ==
  [][\A c \in Callers, d \in Callers :
       ( /\ c # d
         /\ result = NoReply /\ result'.srv = ServerOf(c)
         /\ HasSelection(ServerOf(d)) )
       => SessionOf(ServerOf(d))' = SessionOf(ServerOf(d))]_vars

\* No server is in the middle of a write.
AllIdle == \A t \in Servers : pc[t] = "idle"

C13_SplicesIntoCurrentFile ==
  [][\A s \in Servers :
       /\ (Returned("overwrite", s) /\ result'.status = "preview")
          => LET now == readlines(Get(disk[Get(current_file_path[s])]))
                 st == Get(staged'[s])
                 p == Get(pending_modified_lines'[s])
                 tail == Len(now) - st.end
             IN /\ SubSeq(p, 1, st.start - 1) = SubSeq(now, 1, st.start - 1)
                /\ SubSeq(p, Len(p) - tail + 1, Len(p))
                     = SubSeq(now, st.end + 1, Len(now))
                /\ Join(p) = RoundTrip(Join(now), st.start, st.end, st.new_lines)
       /\ (Returned("confirm", s) /\ result'.status = "success")
          => \E p \in Paths :
               /\ current_file_path[s] = Some(p)
               /\ disk'[p] = Some(writelines(Get(pending_modified_lines[s])))]_vars

\* An overwrite has just staged a change for lines that are as select read
\* them, in a file that was changed elsewhere since: the staged content
\* has the change made elsewhere.
C13_Witness ==
  \E s \in Servers :
    /\ result = Reply("overwrite", s, "preview", "none")
    /\ FileReadable(s) /\ HasSelection(s) /\ HasPending(s)
    /\ RangeTextNow(s) = Get(observed[s]).text
    /\ LET st == Get(staged[s])
           now == UniversalNewlines(Get(disk[st.path]))
           then == UniversalNewlines(Get(observed[s]).file)
       IN /\ now # then
          /\ Join(Get(pending_modified_lines[s]))
               = RoundTrip(now, st.start, st.end, st.new_lines)
          /\ Join(Get(pending_modified_lines[s]))
               # RoundTrip(then, st.start, st.end, st.new_lines)

\* The strictness configured for the type of the file.
Strict(path) ==
  IF endswith(path, ".py") THEN fail_on_python_syntax_error
  ELSE fail_on_js_syntax_error

\* C14: when the syntax check rejects the proposed content, the selection
\* stays; under the strict flag of the file type the call ends cancelled with
\* no pending change, under the other it ends as a preview with the proposed
\* content pending.  A confirm without a pending change returns the
\* no-pending error and writes nothing; a confirm that succeeds writes the
\* pending content.
C14_RejectedBySyntaxCheck ==
  [][\A s \in Servers :
       /\ ( /\ Returned("overwrite", s)
            /\ result'.error \in { "python_syntax", "js_syntax" } )
          => LET path == Get(current_file_path[s])
             IN /\ UNCHANGED << disk, current_file_path, selected_start,
                                selected_end, selected_id >>
                /\ HasSelection(s)
                /\ IF Strict(path)
                   THEN /\ result'.status = "auto_cancelled"
                        /\ pending_modified_lines'[s] = None
                        /\ pending_diff'[s] = None
                   ELSE /\ result'.status = "preview"
                        /\ pending_diff'[s] # None
                        /\ pending_modified_lines'[s] # None
                        /\ Join(Get(pending_modified_lines'[s]))
                             = RoundTrip(Join(readlines(Get(disk[path]))),
                                         Get(selected_start[s]),
                                         Get(selected_end[s]),
                                         Get(staged'[s]).new_lines)
       /\ (Returned("confirm", s) /\ ~HasPending(s))
          => (result'.error = "no_pending" /\ UNCHANGED << disk, session >>)
       /\ (Returned("confirm", s) /\ HasPending(s) /\ result'.status = "success")
          => disk'[Get(current_file_path[s])]
               = Some(TranslateOnWrite(Join(Get(pending_modified_lines[s]))))]_vars

\* An overwrite has just been rejected by the syntax check of a file type
\* that is not strict: the proposal is pending and the selection is there.
C14_Witness ==
  \E s \in Servers :
    /\ result = Reply("overwrite", s, "preview", "js_syntax")
    /\ HasSelection(s) /\ HasPending(s)
    /\ ~Strict(Get(current_file_path[s]))

\* The number of lines a server reads from its current file.
FileLength(s) == Len(readlines(Get(disk[Get(current_file_path[s])])))

\* The step is a select(start, end) of server s that read its file of n
\* lines: it returns what these arguments give, and on success it was
\* asked for them.
IsSelectOf(s, n, start, end) ==
  /\ result'.op = "select" /\ result'.srv = s
  /\ result'.error = SelectOutcome(n, start, end)
  /\ result'.status = "success" => Get(result'.value).asked = << start, end >>

\* C15: select(start, end) on a readable file of n lines returns the error
\* for start < 1; else, with end clamped down to n, the error for
\* start > end, so that it always fails on an empty file; when it succeeds,
\* the range it stores and returns is (start, min(end, n)), and an end
\* beyond n is by itself no error.
C15_SelectRange ==
  [][\A s \in Servers :
       (Returned("select", s) /\ FileReadable(s))
       => LET n == FileLength(s)
          IN /\ n = 0 => result'.status # "success"
             /\ result'.status = "success"
                  => /\ selected_start'[s] = Some(Get(result'.value).start)
                     /\ selected_end'[s] = Some(Get(result'.value).end)
             /\ \A start \in LineArgs, end \in LineArgs :
                  IsSelectOf(s, n, start, end)
                  => /\ start < 1
                          => (result'.error = "start_lt_1" /\ UNCHANGED session)
                     /\ (start >= 1 /\ start > Min(end, n))
                          => (result'.error = "start_gt_end" /\ UNCHANGED session)
                     /\ (start >= 1 /\ start <= Min(end, n))
                          => result'.error \in { "none", "too_many_lines" }
                     /\ result'.status = "success"
                          => /\ selected_start'[s] = Some(start)
                             /\ selected_end'[s] = Some(Min(end, n))
                             /\ Get(result'.value).start = start
                             /\ Get(result'.value).end = Min(end, n)]_vars

\* A select has just succeeded with an end that was beyond the file and was
\* clamped to its length.
C15_Witness ==
  \E s \in Servers :
    /\ result.op = "select" /\ result.srv = s /\ result.status = "success"
    /\ Get(observed[s]).clamped
    /\ FileReadable(s) /\ selected_end[s] = Some(FileLength(s))
    /\ Get(result.value).end = FileLength(s)

\* The number of lines the selection of server s spans.
SelectedSpan(s) == Get(selected_end[s]) - Get(selected_start[s]) + 1

\* C16: a select whose range, after end is clamped to the file length, has
\* more than max_select_lines lines returns the limit error and stores
\* nothing: the session, its fingerprint included, is as before; and in
\* every state a selection spans at least one line and at most
\* max_select_lines lines.
C16_SelectLimit ==
  /\ \A s \in Servers : ~HasSelection(s)
  /\ [][\A s \in Servers :
          /\ HasSelection(s)' => SelectedSpan(s)' \in 1..max_select_lines
          /\ (Returned("select", s) /\ FileReadable(s))
             => LET n == FileLength(s)
                IN /\ \A start \in LineArgs, end \in LineArgs :
                        ( /\ IsSelectOf(s, n, start, end)
                          /\ start >= 1 /\ start <= Min(end, n)
                          /\ Min(end, n) - start + 1 > max_select_lines )
                        => /\ result'.error = "too_many_lines"
                           /\ result'.value = None
                           /\ UNCHANGED session
                   /\ result'.error = "too_many_lines"
                        => /\ UNCHANGED session
                           /\ n > max_select_lines]_vars

\* A select over more lines than the limit has just been rejected on a file
\* that has that many lines, and the selection made before it is still
\* there.
C16_Witness ==
  \E s \in Servers :
    /\ result.op = "select" /\ result.srv = s
    /\ result.error = "too_many_lines"
    /\ FileReadable(s) /\ FileLength(s) > max_select_lines
    /\ HasSelection(s) /\ SelectedSpan(s) = max_select_lines

\* C17: when overwrite stages new lines over start..end of a file, the last
\* inserted line ends with a newline if lines of the file follow it
\* (end < file length); if the block is the last of the file
\* (end = file length) the last inserted line is staged as it was given, so
\* that a last line given without a newline, replacing the last line of a
\* file without a trailing newline, leaves the file without one.
C17_TrailingNewline ==
  [][\A s \in Servers :
       (Returned("overwrite", s) /\ result'.status = "preview")
       => LET st == Get(staged'[s])
              n == Len(readlines(st.file))
              new == st.new_lines
              pend == Get(pending_modified_lines'[s])
              last == st.start - 1 + Len(new)
          IN new # << >>
             => /\ st.end < n => EndsWithNL(pend[last])
                /\ st.end = n => pend[last] = new[Len(new)]
                /\ ( /\ st.end = n
                     /\ ~EndsWithNL(st.file)
                     /\ ~EndsWithNL(new[Len(new)]) )
                   => ~EndsWithNL(Join(pend))]_vars

\* C18: a fingerprint that calculate_id (or calculate_hash) returns equals
\* the one it made of the text that select read, with the range select
\* stored, if and only if it was computed from that same text and that same
\* (start, end): different content or a different range never gives the
\* same id.
C18_IdEqualIffSameInput ==
  [][\A s \in Servers :
       (result = NoReply /\ result'.srv = s /\ HasSelection(s))
       => LET v == Get(result'.value)
              text == Get(observed[s]).text
              start == Get(selected_start[s])
              end == Get(selected_end[s])
              same == v.text = text /\ v.start = start /\ v.end = end
          IN /\ result'.op = "calculate_id"
                  => (v.id = Get(selected_id[s]) <=> same)
             /\ result'.op = "calculate_hash"
                  => (v.id = calculate_hash(text, start, end) <=> same)]_vars

\* C19: calculate_id(text, start, end) returns the two hex digits h of the
\* text after "L{start}-{end}-" when both line numbers are given and differ,
\* after "L{start}-" when they are the same, and h alone when no range is
\* given; and the id that select(start, end) returns and stores is
\* calculate_id of the joined lines start..min(end, n) of the file with
\* (start, min(end, n)).
C19_IdFormat ==
  [][\A s \in Servers :
       /\ Returned("calculate_id", s)
          => LET v == Get(result'.value)
                 h == Sha256Hex2(v.text)
             IN /\ (v.start >= 1 /\ v.end >= 1 /\ v.start # v.end)
                     => v.id = << "L", v.start, "-", v.end, "-", h >>
                /\ (v.start >= 1 /\ v.end = v.start)
                     => v.id = << "L", v.start, "-", h >>
                /\ (v.start = 0 /\ v.end = 0) => v.id = << h >>
       /\ (Returned("select", s) /\ result'.status = "success")
          => LET v == Get(result'.value)
                 lines == readlines(Get(disk[Get(current_file_path[s])]))
                 start == v.asked[1]
                 end == Min(v.asked[2], Len(lines))
                 text == Join(Slice(lines, start - 1, end))
                 h == Sha256Hex2(text)
             IN /\ v.id = calculate_id(text, start, end)
                /\ v.id = IF start = end THEN << "L", start, "-", h >>
                          ELSE << "L", start, "-", end, "-", h >>
                /\ selected_id'[s] = Some(v.id)]_vars

\* A select of one line whose end was beyond the file has just returned the
\* id of that line with the one-bound prefix.
C19_Witness ==
  \E s \in Servers :
    /\ result.op = "select" /\ result.srv = s /\ result.status = "success"
    /\ Get(observed[s]).clamped
    /\ Get(result.value).id =
         << "L", Get(selected_start[s]), "-", Sha256Hex2(Get(observed[s]).text) >>
    /\ Get(result.value).asked[2] > Get(selected_end[s])

C21_ErrorsAreData ==
  result.op \in { "select", "overwrite", "confirm", "cancel" }
    => result.status # "raised"

\* The permutations of 1..n.
Perms(n) == { p \in [1..n -> 1..n] : \A i, j \in 1..n : i # j => p[i] # p[j] }

\* The end of a range in a file of total_lines lines: total_lines when absent.
EndOf(r, total_lines) == IF r.end = None THEN total_lines ELSE Get(r.end)

\* Two ranges of the list share a line: a.start <= b.start <= a.end.
SharesLine(ranges, total_lines) ==
  \E i, j \in 1..Len(ranges) :
    /\ i # j
    /\ ranges[i].start <= ranges[j].start
    /\ ranges[j].start <= EndOf(ranges[i], total_lines)

\* C22: validate_ranges and validate_patches give every permutation of a
\* list the verdict they give the list, and reject every list in which two
\* ranges a, b have a.start <= b.start <= a.end.
C22_OrderIndependent ==
  [][(result = NoReply /\ result'.op \in { "validate_ranges", "validate_patches" })
     => LET v == Get(result'.value)
            n == Len(v.ranges)
        IN /\ \A p \in Perms(n) :
                LET permuted == [i \in 1..n |-> v.ranges[p[i]]]
                IN v.verdict =
                     IF result'.op = "validate_ranges"
                     THEN validate_ranges(permuted, v.total_lines)
                     ELSE validate_patches(permuted, v.total_lines)
           /\ SharesLine(v.ranges, v.total_lines) => ~v.verdict]_vars

\* C23: validate_ranges(ranges, total_lines) returns true exactly when every
\* range has start >= 1 and an end, total_lines when absent, with
\* start <= end <= total_lines, and no two ranges share a line; a range whose
\* end is beyond the file is rejected.
C23_ValidRangesExactly ==
  [][(result = NoReply /\ result'.op = "validate_ranges")
     => LET v == Get(result'.value)
            t == v.total_lines
        IN /\ v.verdict <=>
                /\ \A i \in 1..Len(v.ranges) :
                     /\ v.ranges[i].start >= 1
                     /\ v.ranges[i].start <= EndOf(v.ranges[i], t)
                     /\ EndOf(v.ranges[i], t) <= t
                /\ ~SharesLine(v.ranges, t)
           /\ (\E i \in 1..Len(v.ranges) : EndOf(v.ranges[i], t) > t)
                => ~v.verdict]_vars

\* C24: edit_file validates before it writes.  When the hash it is given
\* differs from the hash of the file's content, or validate_patches rejects
\* the patches, it returns an error and the file is as before: no patch is
\* applied; on a hash mismatch the result carries the hash of the content.
C24_ValidatesBeforeWriting ==
  [][(result = NoReply /\ result'.op = "edit_file")
     => LET v == Get(result'.value)
        IN disk[v.path] # None
           => LET content == UniversalNewlines(Get(disk[v.path]))
              IN IF v.asked.hash # << Sha256Hex2(content) >>
                 THEN /\ result'.status = "error" /\ disk' = disk
                      /\ result'.error = "hash_mismatch"
                      /\ v.hash = Some(<< Sha256Hex2(content) >>)
                 ELSE ~validate_patches(v.asked.patches,
                                        Len(SplitKeepEnds(content, 1, << >>)))
                      => /\ result'.status = "error" /\ disk' = disk
                         /\ result'.error = "invalid_patches"]_vars

\* edit_file has just refused, for their ranges, patches of which the first
\* alone would have been applied, and the file is the one the hash was
\* taken of.
C24_Witness ==
  /\ result.op = "edit_file" /\ result.error = "invalid_patches"
  /\ LET v == Get(result.value)
     IN /\ disk[v.path] # None
        /\ v.hash = Some(calculate_hash(UniversalNewlines(Get(disk[v.path])), 0, 0))
        /\ Len(v.asked.patches) = 2
        /\ validate_patches(<< v.asked.patches[1] >>,
             Len(SplitKeepEnds(UniversalNewlines(Get(disk[v.path])), 1, << >>)))

\* The labels of a diff: each entry without its text.
DiffLabels(diff_lines) ==
  [k \in 1..Len(diff_lines) |-> << diff_lines[k][1], diff_lines[k][2] >>]

\* The labels kind lo+1, kind lo+2, .. kind hi.
LabelRun(kind, lo, hi) == [k \in 1..Max(0, hi - lo) |-> << kind, lo + k >>]

\* C25: generate_diff_preview returns, in this order, the min(3, start - 1)
\* lines before start under their plain numbers, every line start..end as
\* "-n", every line of the replacement block as "+(start + i)", i = 0, 1, ..,
\* and the min(3, len(original) - end) lines after end under their numbers:
\* there are as many "+" entries as replacement lines.
C25_DiffEntries ==
  [][(result = NoReply /\ result'.op = "generate_diff_preview"
        /\ result'.status = "success")
     => LET v == Get(result'.value)
            n == Len(v.original_lines)
        IN /\ DiffLabels(v.diff_lines) =
                LabelRun("ctx", v.start - 1 - Min(3, v.start - 1), v.start - 1)
                  \o LabelRun("-", v.start - 1, v.end)
                  \o LabelRun("+", v.start - 1, v.start - 1 + Len(v.block))
                  \o LabelRun("ctx", v.end, v.end + Min(3, n - v.end))
           /\ Cardinality({ k \in 1..Len(v.diff_lines) : v.diff_lines[k][1] = "+" })
                = Len(v.block)]_vars

\* The last commit of server s replaced lines of the file that is still set.
CommittedHere(s) ==
  /\ committed[s] # None
  /\ current_file_path[s] = Some(Get(committed[s]).path)
  /\ Len(Get(committed[s]).new_lines) >= 1

\* The last line of the range that the committed lines of server s fill.
CommittedEnd(s) ==
  Get(committed[s]).start + Len(Get(committed[s]).new_lines) - 1

\* No line holds a line break before its end.
PlainLines(new_lines) ==
  \A i \in 1..Len(new_lines) :
    \A j \in 1..(Len(new_lines[i]) - 1) : new_lines[i][j] \notin { NL, CR }

\* The select of this step asked for the committed lines of server s.
SelectsCommitted(s) ==
  /\ result'.status = "success"
  /\ Get(result'.value).asked = << Get(committed[s]).start, CommittedEnd(s) >>

\* The overwrite of this step follows a select of the committed lines.
OverwritesCommitted(s) ==
  /\ Returned("overwrite", s) /\ CommittedHere(s)
  /\ selected_start[s] = Some(Get(committed[s]).start)
  /\ selected_end[s] = Some(CommittedEnd(s))

\* C26 as stated: after select(start, end), overwrite(newLines) with k >= 1
\* new lines and confirm, with no write in between, select(start, start+k-1)
\* succeeds and returns lines equal to newLines and the id of the stored
\* lines with the range (start, start+k-1), and an overwrite right after
\* passes the id verification.
C26_NewLinesReadBack ==
  [][\A s \in Servers :
       /\ (Returned("select", s) /\ CommittedHere(s))
          => LET c == Get(committed[s])
             IN /\ SelectOutcome(FileLength(s), c.start, CommittedEnd(s)) = "none"
                /\ SelectsCommitted(s)
                   => /\ Get(result'.value).lines = c.new_lines
                      /\ Get(result'.value).id =
                           calculate_id(UniversalNewlines(
                                          Join(ProcessNewLines(c.new_lines))),
                                        c.start, CommittedEnd(s))
       /\ OverwritesCommitted(s)
          => result'.error \notin { "conflict", "no_selection" }]_vars

\* C26, amended: when k is at most max_select_lines and no new line holds a
\* line break before its end, select(start, start+k-1) succeeds and returns
\* every new line without its trailing whitespace and the id of the stored
\* lines, as they read back, with the range (start, start+k-1), and an
\* overwrite right after passes the id verification.
C26_RoundTripOfPlainLines ==
  [][\A s \in Servers :
       /\ (Returned("select", s) /\ CommittedHere(s))
          => LET c == Get(committed[s])
                 k == Len(c.new_lines)
             IN (k <= max_select_lines /\ PlainLines(c.new_lines))
                => /\ SelectOutcome(FileLength(s), c.start, CommittedEnd(s)) = "none"
                   /\ SelectsCommitted(s)
                      => /\ Get(result'.value).lines =
                              [i \in 1..k |-> rstrip(c.new_lines[i])]
                         /\ Get(result'.value).id =
                              calculate_id(UniversalNewlines(
                                             Join(ProcessNewLines(c.new_lines))),
                                           c.start, CommittedEnd(s))
       /\ OverwritesCommitted(s)
          => result'.error \notin { "conflict", "no_selection" }]_vars

\* A select has returned the two lines of the last commit.
C26_Witness ==
  /\ result.op = "select" /\ result.status = "success"
  /\ committed["s1"] # None
  /\ Len(Get(committed["s1"]).new_lines) = 2
  /\ Get(result.value).asked =
       << Get(committed["s1"]).start, Get(committed["s1"]).start + 1 >>

\* C27: current_file_path is never a protected path, and no step reads,
\* writes, creates or deletes a protected file.
C27_ProtectedUntouched ==
  [][/\ \A s \in Servers :
         current_file_path'[s] # None
         => ~IsProtected(Get(current_file_path'[s]))
     /\ \A p \in Paths : IsProtected(p) => disk'[p] = disk[p]]_vars

\* C28: a set_file, delete_file or new_file that returns an error leaves
\* current_file_path as it was.
C28_FailedCallKeepsPath ==
  [][(result = NoReply /\ result'.op \in { "set_file", "delete_file", "new_file" }
      /\ result'.error # "none")
     => current_file_path' = current_file_path]_vars

\* The selection of server s is the one new_file made, and the file is as
\* new_file wrote it.
FreshFile(s) ==
  /\ FileReadable(s)
  /\ observed[s] # None /\ Get(observed[s]).by = "new_file"
  /\ disk[Get(current_file_path[s])] = Some(Get(observed[s]).file)

\* C29: a successful new_file leaves the header text in the file and selects
\* line 1 with the id of that text; an overwrite that follows at once passes
\* the id verification; and when its change is confirmed the file holds the
\* new lines and nothing else.
C29_NewFileSelectsHeader ==
  [][\A s \in Servers :
       /\ (Returned("new_file", s) /\ result'.status = "success")
          => LET v == Get(result'.value)
             IN /\ current_file_path'[s] = Some(v.current_file_path)
                /\ disk'[v.current_file_path] = Some(v.text)
                /\ selected_start'[s] = Some(1) /\ selected_end'[s] = Some(1)
                /\ selected_id'[s] = Some(calculate_id(v.text, 1, 1))
                /\ v.id = calculate_id(v.text, 1, 1)
       /\ (Returned("overwrite", s) /\ FreshFile(s))
          => result'.error \notin { "conflict", "no_selection", "no_file" }
       /\ (Returned("confirm", s) /\ result'.status = "success"
           /\ Get(staged[s]).by = "new_file")
          => disk'[Get(current_file_path[s])] =
               Some(Join(ProcessNewLines(Get(staged[s]).new_lines)))]_vars

\* The change made to a new file was confirmed: its two lines are the file.
C29_Witness ==
  /\ result.op = "confirm" /\ result.status = "success"
  /\ committed["s1"] # None /\ Get(committed["s1"]).by = "new_file"
  /\ Len(Get(committed["s1"]).new_lines) = 2
  /\ disk[Get(committed["s1"]).path] = Some(<< "b", NL, "a", NL >>)

\* The header at line i is the first statement of the body of a class.
FirstOfClassBody(src, i) ==
  \E c \in 1..Len(src) :
    /\ src[c].kind = "class"
    /\ NodeBody(src, c) # << >>
    /\ NodeBody(src, c)[1] = i

\* C30: the start line of a located Python definition is the line of the
\* class header when the definition is the first member of a class body,
\* decorated or not; else the line of its first decorator when it has one;
\* else the line of its def.
C30_StartLine ==
  [][(result = NoReply /\ result'.op = "find_function"
      /\ result'.status = "success")
     => LET v == Get(result'.value)
            def == v.found.function_node
            decorated == def > 1 /\ v.src[def - 1].kind = "deco"
            RECURSIVE first_decorator(_)
            first_decorator(i) ==
              IF i > 1 /\ v.src[i - 1].kind = "deco" THEN first_decorator(i - 1)
              ELSE i
        IN /\ v.src[def].kind = "def" /\ v.src[def].name = v.function_name
           /\ v.start_line =
                IF FirstOfClassBody(v.src, def)
                THEN CHOOSE c \in 1..Len(v.src) :
                       v.src[c].kind = "class" /\ NodeBody(v.src, c)[1] = def
                ELSE IF decorated THEN first_decorator(def)
                ELSE def]_vars

\* A decorated method that opens its class body was found: its start is the
\* line of the class, two lines above its def.
C30_Witness ==
  /\ result.op = "find_function" /\ result.status = "success"
  /\ Get(result.value).found.class_node # 0
  /\ Get(result.value).start_line = Get(result.value).found.function_node - 2
  /\ Get(result.value).src[Get(result.value).found.function_node - 1].kind = "deco"

\* Line i is a def of the name at the top level of the module.
TopLevelDef(src, i, name) ==
  src[i].kind = "def" /\ src[i].name = name /\ src[i].indent = 0

\* Line i is a def of the name that is a statement of a class body.
MethodDef(src, i, name) ==
  /\ src[i].kind = "def" /\ src[i].name = name
  /\ \E c \in 1..Len(src) :
       /\ src[c].kind = "class"
       /\ \E k \in 1..Len(NodeBody(src, c)) : NodeBody(src, c)[k] = i

\* C31: of several definitions of the name find_function returns a top-level
\* function if there is one, else a method of a class if there is one, else a
\* function nested directly in a function, wherever they stand in the file;
\* for a nested result it reports is_nested and the enclosing function's name.
C31_PreferenceOrder ==
  [][(result = NoReply /\ result'.op = "find_function"
      /\ result'.status = "success")
     => LET v == Get(result'.value)
            src == v.src
            def == v.found.function_node
        IN /\ IF \E i \in 1..Len(src) : TopLevelDef(src, i, v.function_name)
              THEN TopLevelDef(src, def, v.function_name)
              ELSE (\E i \in 1..Len(src) : MethodDef(src, i, v.function_name))
                   => MethodDef(src, def, v.function_name)
           /\ v.found.parent_function # 0
              => /\ v.is_nested
                 /\ v.parent_function = Some(src[v.found.parent_function].name)
                 /\ src[v.found.parent_function].kind = "def"
                 /\ \E k \in 1..Len(NodeBody(src, v.found.parent_function)) :
                      NodeBody(src, v.found.parent_function)[k] = def]_vars

\* JavaScript's own reading of a text from position i on: for every position
\* whether it lies in a string literal (its quotes included).  A literal
\* opens at a quote, a backslash in it escapes the next character, and it
\* closes at the next quote of its kind that is not escaped.
RECURSIVE InLiteral(_, _, _, _)
InLiteral(text, i, delimiter, escaped) ==
  IF i > Len(text) THEN << >>
  ELSE IF delimiter = ""
  THEN << text[i] \in JsQuotes >>
       \o InLiteral(text, i + 1, IF text[i] \in JsQuotes THEN text[i] ELSE "", FALSE)
  ELSE << TRUE >>
       \o InLiteral(text, i + 1,
                    IF ~escaped /\ text[i] = delimiter THEN "" ELSE delimiter,
                    ~escaped /\ text[i] = "\\")

\* The position of the brace that closes the brace at position open, counting
\* the braces outside string literals, or 0.
RECURSIVE ClosingBrace(_, _, _, _)
ClosingBrace(text, literal, i, depth) ==
  IF i > Len(text) THEN 0
  ELSE IF literal[i] THEN ClosingBrace(text, literal, i + 1, depth)
  ELSE IF text[i] = "{" THEN ClosingBrace(text, literal, i + 1, depth + 1)
  ELSE IF text[i] = "}" /\ depth = 1 THEN i
  ELSE IF text[i] = "}" THEN ClosingBrace(text, literal, i + 1, depth - 1)
  ELSE ClosingBrace(text, literal, i + 1, depth)

\* The number of the line that holds position i.
LineAt(text, i) == 1 + Cardinality({ j \in 1..(i - 1) : text[j] = NL })

\* Where the header of the function stands, and where its body closes.
JsOpen(text) == JsMatchStart(text, 0) + 1
JsClose(text) == ClosingBrace(text, InLiteral(text, 1, "", FALSE), JsOpen(text), 0)

\* The text is JavaScript as far as the scan is concerned: every backslash
\* stands in a string literal, and the body of the function closes.
JsWellFormed(text) ==
  /\ JsClose(text) # 0
  /\ \A i \in 1..Len(text) :
       text[i] = "\\" => InLiteral(text, 1, "", FALSE)[i]

\* The body holds a brace in a string literal.
BraceInLiteral(text) ==
  \E i \in JsOpen(text)..JsClose(text) :
    text[i] \in { "{", "}" } /\ InLiteral(text, 1, "", FALSE)[i]

\* C32: for a function whose body holds a string literal with a brace in it,
\* the end line that the brace scan returns is the line of the brace that
\* closes the function's opening brace.
C32_StringsDoNotCount ==
  [][(result = NoReply /\ result'.op = "find_function"
      /\ result'.status = "success" /\ Get(result'.value).parser = "scan")
     => LET v == Get(result'.value)
        IN (JsWellFormed(v.source_code) /\ BraceInLiteral(v.source_code))
           => v.end_line = LineAt(v.source_code, JsClose(v.source_code))]_vars

\* C34: the scan returns the numbers of the lines that hold the start of the
\* match and the closing brace, also when that brace ends the file, and
\* every successful result has 1 <= start_line <= end_line <= number of lines.
C34_LinesOfOffsets ==
  [][(result = NoReply /\ result'.op = "find_function"
      /\ result'.status = "success" /\ Get(result'.value).parser = "scan")
     => LET v == Get(result'.value)
            text == v.source_code
        IN /\ 1 <= v.start_line /\ v.start_line <= v.end_line
           /\ v.end_line <= Len(SplitKeepEnds(text, 1, << >>))
           /\ v.start_line = LineAt(text, JsOpen(text))
           /\ JsWellFormed(text) => v.end_line = LineAt(text, JsClose(text))]_vars

\* The first def or class line after line i that is indented no deeper than
\* line i, or 0.
RECURSIVE NextSibling(_, _, _)
NextSibling(src, i, j) ==
  IF j > Len(src) THEN 0
  ELSE IF src[j].kind \in { "def", "class" } /\ src[j].indent <= src[i].indent
  THEN j
  ELSE NextSibling(src, i, j + 1)

\* C33: when a def or class line at the same or a lower indentation follows
\* the function found in a Python file, the returned end_line is the line just
\* before it, whatever the body is.
C33_EndsBeforeSibling ==
  [][(result = NoReply /\ result'.op = "find_function"
      /\ result'.status = "success" /\ "found" \in DOMAIN Get(result'.value))
     => LET v == Get(result'.value)
            sibling == NextSibling(v.src, v.found.function_node,
                                   v.found.function_node + 1)
        IN sibling # 0 => v.end_line = sibling - 1]_vars

\* C35: a step of confirm changes no file but the one that was the current
\* file when overwrite computed the pending change.
C35_ConfirmWritesOwnFile ==
  [][\A s \in Servers, p \in Paths :
       (pc'[s] # pc[s] /\ disk'[p] # disk[p])
       => staged[s] # None /\ Get(staged[s]).path = p]_vars

\* C36: whenever a change is pending, a selection is stored and the pending
\* change was computed for it: the same start, the same end and the id of
\* the text that the change replaces.
C36_PendingIsOfSelection ==
  \A s \in Servers :
    HasPending(s)
    => /\ staged[s] # None /\ HasSelection(s)
       /\ LET st == Get(staged[s])
          IN /\ selected_start[s] = Some(st.start)
             /\ selected_end[s] = Some(st.end)
             /\ selected_id[s] =
                  Some(calculate_id(
                         CurrentContent(readlines(st.file), st.start, st.end),
                         st.start, st.end))

\* C37: in every state of a session the two pending fields are both unset
\* or both set; when they are set, start, end and id of a selection are set
\* too; and a stored selection has 1 <= selected_start <= selected_end.
C37_SessionInvariant ==
  \A s \in Servers :
    /\ (pending_modified_lines[s] = None) <=> (pending_diff[s] = None)
    /\ pending_modified_lines[s] # None => HasSelection(s)
    /\ (selected_start[s] # None \/ selected_end[s] # None
        \/ selected_id[s] # None)
       => /\ HasSelection(s)
          /\ 1 <= Get(selected_start[s])
          /\ Get(selected_start[s]) <= Get(selected_end[s])

\* A change is pending while the selection is another one than the one it
\* was computed for: select was called again after overwrite.
C37_Witness ==
  \E s \in Servers :
    /\ HasPending(s) /\ HasSelection(s) /\ staged[s] # None
    /\ Get(staged[s]).start # Get(selected_start[s])

\* The lines of a file in which every patch's range start..end is replaced
\* by the lines of the patch and every other line is kept, from line k on.
RECURSIVE PatchedFrom(_, _, _)
PatchedFrom(lines, patches, k) ==
  IF k > Len(lines) THEN << >>
  ELSE IF \E i \in 1..Len(patches) : patches[i].start = k
  THEN LET patch == patches[CHOOSE i \in 1..Len(patches) : patches[i].start = k]
       IN SplitKeepEnds(patch.contents, 1, << >>)
          \o PatchedFrom(lines, patches, EndOr(patch.end, Len(lines)) + 1)
  ELSE << lines[k] >> \o PatchedFrom(lines, patches, k + 1)

\* C38: an edit_file that accepts its patches, each of a range with
\* start <= end, writes the file in which each range of the original is
\* replaced by its patch's content and the other lines are kept, in whatever
\* order the patches come and whatever their line counts.
C38_PatchesReplaceRanges ==
  [][(result = NoReply /\ result'.op = "edit_file" /\ result'.status = "ok")
     => LET v == Get(result'.value)
            patches == v.asked.patches
            lines == SplitKeepEnds(Get(disk[v.path]), 1, << >>)
        IN (\A i \in 1..Len(patches) :
              patches[i].start <= EndOr(patches[i].end, Len(lines)))
           => disk'[v.path] = Some(Join(PatchedFrom(lines, patches, 1)))]_vars

\* C39: validate_patches and validate_ranges give every list the same
\* verdict, and each rejects a list that holds a range with start < 1 or
\* with an end before its start.
C39_SameValidator ==
  [][(result = NoReply /\ result'.op \in { "validate_ranges", "validate_patches" })
     => LET v == Get(result'.value)
        IN /\ validate_ranges(v.ranges, v.total_lines)
                = validate_patches(v.ranges, v.total_lines)
           /\ (\E i \in 1..Len(v.ranges) :
                 \/ v.ranges[i].start < 1
                 \/ v.ranges[i].end # None
                    /\ Get(v.ranges[i].end) < v.ranges[i].start)
              => ~v.verdict]_vars

\* Server s has deleted its file and no set_file or new_file has set
\* a path since.
AfterDelete(s) == current_file_path[s] = None /\ writes["files"] > 0

\* C40: a successful delete_file removes the current file and clears the
\* path; from then on, until set_file or new_file sets a path, select and
\* overwrite return the no-file error, confirm returns an error, and no call
\* of the server but new_file creates or writes a file.
C40_DeletedStaysDeleted ==
  [][\A s \in Servers :
       /\ (Returned("delete_file", s) /\ result'.status = "success")
          => /\ current_file_path'[s] = None
             /\ disk'[Get(current_file_path[s])] = None
       /\ AfterDelete(s)
          => /\ Returned("select", s) => result'.error = "no_file"
             /\ Returned("overwrite", s) => result'.error = "no_file"
             /\ Returned("confirm", s)
                  => result'.status # "success"
                     /\ result'.error \in { "no_pending", "write_error" }
             /\ (disk' # disk /\ (result'.srv = s \/ pc'[s] # pc[s]))
                  => Returned("new_file", s)]_vars

\* A confirm of a change staged before the delete has just failed: no path
\* is set, the change is still pending and the deleted file is not there.
C40_Witness ==
  \E s \in Servers :
    /\ AfterDelete(s) /\ HasPending(s) /\ staged[s] # None
    /\ result = Reply("confirm", s, "none", "write_error")
    /\ disk[Get(staged[s]).path] = None

====
